---- MODULE Spec2Model ----
(***************************************************************************)
(* A model of infrax's configuration resolver (src/src/resolver/index.ts),  *)
(* registry loader (src/src/loaders/index.ts) and the resolve, enable and  *)
(* disable commands of its CLI (src/src/cli/commands).                     *)
(*                                                                         *)
(* Conventions.                                                            *)
(*  - An optional value (x?: T) is a sequence of length at most one:       *)
(*    <<>> is undefined, <<v>> is v.                                       *)
(*  - A string the code inspects character by character (an id, a model    *)
(*    name, a glob) is kept as a TLA+ string in the state; Chars gives its *)
(*    characters where the code looks at them (matchPattern, simpleHash).  *)
(*  - A text the code only concatenates (agent instructions) is a sequence *)
(*    of tokens; the empty string is <<>>.                                 *)
(*  - A JS Set or Map is kept in insertion order: a Set is a sequence      *)
(*    without repetition, a Map a sequence of entries with distinct ids.   *)
(*  - An id list of an EnableDisableSet that is absent is the empty list   *)
(*    (the code reads every one of them through "?? []"); so is an absent  *)
(*    models or contexts list of a Selectors (read through "list &&        *)
(*    list.length > 0").                                                   *)
(***************************************************************************)
EXTENDS Integers, Sequences, FiniteSets, TLC

VARIABLES
    registry,     \* Registry handed to resolveFromRegistry
    rootConfig,   \* RootConfig handed to resolveFromRegistry
    input,        \* ResolveInput: model, context, cliOverlay
    resolved,     \* <<>> or <<the ResolvedConfig of the latest call>>
    previous,     \* <<>> or <<the ResolvedConfig of the call before, on the same inputs>>
    clock,        \* the wall clock read by new Date()
    setup,        \* number of changes made to the inputs, or of commands run, so far
    disk,         \* the sources loadFullRegistry has read so far, each with what it held
    loading,      \* the Registry under construction by loadFullRegistry
    loadErrors,   \* the errors loadFullRegistry has collected
    loadPc,       \* [at, state]: index of the source to load next; state "loading", "done", "thrown" ("idle": no load)
    loadLog,      \* per turn of addWithCollisionCheck: what was there, what came, what was kept
    argv          \* the command line of the latest run of the CLI

vars ==
    <<registry, rootConfig, input, resolved, previous, clock, setup,
      disk, loading, loadErrors, loadPc, loadLog, argv>>

resolverVars == <<registry, rootConfig, input, resolved, previous, clock, setup>>
loaderVars == <<disk, loading, loadErrors, loadPc, loadLog>>
cliVars == <<argv>>

-----------------------------------------------------------------------------
(* Bounds of the model.                                                    *)

\* Changes made to the default inputs before the first resolution.
MaxSetup == 2

\* Calls of resolveFromRegistry on one set of inputs.
MaxCalls == 2

-----------------------------------------------------------------------------
(* Optional values and sequences.                                          *)

None == <<>>
Some(v) == <<v>>
IsSome(o) == o # <<>>
OrElse(o, d) == IF o = <<>> THEN d ELSE o[1]

Range(s) == {s[i] : i \in 1..Len(s)}

\* new Set(list): first occurrences, in order.
RECURSIVE SetFrom(_)
SetFrom(list) ==
    IF list = <<>> THEN <<>>
    ELSE LET init == SetFrom(SubSeq(list, 1, Len(list) - 1))
             last == list[Len(list)]
         IN IF last \in Range(init) THEN init ELSE Append(init, last)

\* set.add(x) on a list: x is appended whether it is there or not.
SetAddAgain(set, x) == Append(set, x)

\* set.add(x)
SetAdd(set, x) == IF x \in Range(set) THEN set ELSE Append(set, x)

\* for (const id of ids) set.delete(id)
SetDeleteAll(set, ids) ==
    LET keep(x) == x \notin Range(ids) IN SelectSeq(set, keep)

RECURSIVE Concat(_)
Concat(seqs) == IF seqs = <<>> THEN <<>> ELSE Head(seqs) \o Concat(Tail(seqs))

-----------------------------------------------------------------------------
(* Characters.                                                             *)

Chars(s) ==
    CASE s = "" -> <<>>
      [] s = "rule:" -> <<"r", "u", "l", "e", ":">>
      [] s = "agent:" -> <<"a", "g", "e", "n", "t", ":">>
      [] s = "skill:" -> <<"s", "k", "i", "l", "l", ":">>
      [] s = "mcp:" -> <<"m", "c", "p", ":">>
      [] s = "github" -> <<"g", "i", "t", "h", "u", "b">>
      [] s = "filesystem" -> <<"f", "i", "l", "e", "s", "y", "s", "t", "e", "m">>
      [] s = "mcp:filesystem" -> <<"m", "c", "p", ":", "f", "i", "l", "e", "s", "y", "s", "t", "e", "m">>
      [] s = "bogus" -> <<"b", "o", "g", "u", "s">>
      [] s = "gpt-4" -> <<"g", "p", "t", "-", "4">>
      [] s = "gpt-4?" -> <<"g", "p", "t", "-", "4", "?">>
      [] s = "gpt-4." -> <<"g", "p", "t", "-", "4", ".">>
      [] s = "gpt-4x" -> <<"g", "p", "t", "-", "4", "x">>
      [] s = "gpt-" -> <<"g", "p", "t", "-">>
      [] s = "gpt-*" -> <<"g", "p", "t", "-", "*">>
      [] s = "*-4" -> <<"*", "-", "4">>
      [] s = "g(pt)+" -> <<"g", "(", "p", "t", ")", "+">>
      [] s = "?" -> <<"?">>
      [] s = "*" -> <<"*">>
      [] s = "rule:style" -> <<"r", "u", "l", "e", ":", "s", "t", "y", "l", "e">>
      [] s = "rule:anth" -> <<"r", "u", "l", "e", ":", "a", "n", "t", "h">>
      [] s = "rule:ghost" -> <<"r", "u", "l", "e", ":", "g", "h", "o", "s", "t">>
      [] s = "agent:coding" -> <<"a", "g", "e", "n", "t", ":", "c", "o", "d", "i", "n", "g">>
      [] s = "agent:review" -> <<"a", "g", "e", "n", "t", ":", "r", "e", "v", "i", "e", "w">>
      [] s = "agent:ghost" -> <<"a", "g", "e", "n", "t", ":", "g", "h", "o", "s", "t">>
      [] s = "skill:git" -> <<"s", "k", "i", "l", "l", ":", "g", "i", "t">>
      [] s = "skill:ghost" -> <<"s", "k", "i", "l", "l", ":", "g", "h", "o", "s", "t">>
      [] s = "mcp:github" -> <<"m", "c", "p", ":", "g", "i", "t", "h", "u", "b">>
      [] s = "mcp:fs" -> <<"m", "c", "p", ":", "f", "s">>
      [] s = "mcp:ghost" -> <<"m", "c", "p", ":", "g", "h", "o", "s", "t">>
      [] s = "ctx:dev" -> <<"c", "t", "x", ":", "d", "e", "v">>
      [] s = "ctx:prod" -> <<"c", "t", "x", ":", "p", "r", "o", "d">>
      [] s = "ctx:ghost" -> <<"c", "t", "x", ":", "g", "h", "o", "s", "t">>
      [] s = "anthropic:claude-3" -> <<"a", "n", "t", "h", "r", "o", "p", "i", "c", ":", "c", "l", "a", "u", "d", "e", "-", "3">>
      [] s = "openai:gpt-4" -> <<"o", "p", "e", "n", "a", "i", ":", "g", "p", "t", "-", "4">>
      [] s = "anthropic:*" -> <<"a", "n", "t", "h", "r", "o", "p", "i", "c", ":", "*">>
      [] s = "openai:gpt-*" -> <<"o", "p", "e", "n", "a", "i", ":", "g", "p", "t", "-", "*">>
      [] s = "{\"rules\":[" -> <<"{", "\"", "r", "u", "l", "e", "s", "\"", ":", "[">>
      [] s = "],\"agents\":[" -> <<"]", ",", "\"", "a", "g", "e", "n", "t", "s", "\"", ":", "[">>
      [] s = "],\"skills\":[" -> <<"]", ",", "\"", "s", "k", "i", "l", "l", "s", "\"", ":", "[">>
      [] s = "],\"mcpServers\":[" -> <<"]", ",", "\"", "m", "c", "p", "S", "e", "r", "v", "e", "r", "s", "\"", ":", "[">>
      [] s = "]" -> <<"]">>
      [] s = ",\"model\":" -> <<",", "\"", "m", "o", "d", "e", "l", "\"", ":">>
      [] s = ",\"context\":" -> <<",", "\"", "c", "o", "n", "t", "e", "x", "t", "\"", ":">>
      [] s = "}" -> <<"}">>

\* The printable ASCII characters, code 32 first ("grave" stands for the
\* grave accent, code 96, which the module's lexer does not take in a string).
Ascii ==
    <<" ", "!", "\"", "#", "$", "%", "&", "'", "(", ")", "*", "+", ",", "-", ".", "/",
      "0", "1", "2", "3", "4", "5", "6", "7", "8", "9", ":", ";", "<", "=", ">", "?",
      "@", "A", "B", "C", "D", "E", "F", "G", "H", "I", "J", "K", "L", "M", "N", "O",
      "P", "Q", "R", "S", "T", "U", "V", "W", "X", "Y", "Z", "[", "\\", "]", "^", "_",
      "grave", "a", "b", "c", "d", "e", "f", "g", "h", "i", "j", "k", "l", "m", "n", "o",
      "p", "q", "r", "s", "t", "u", "v", "w", "x", "y", "z", "{", "|", "}", "~">>

\* str.charCodeAt(i) of a printable ASCII character.
charCodeAt ==
    [c \in Range(Ascii) |-> 31 + (CHOOSE i \in 1..Len(Ascii) : Ascii[i] = c)]

-----------------------------------------------------------------------------
(* matchPattern: the glob is rewritten into a regular expression source,   *)
(* which new RegExp compiles and test runs.                                *)

\* The characters the first replace escapes: [.+^${}()|[\]\\]
EscapedChars == {".", "+", "^", "$", "{", "}", "(", ")", "|", "[", "]", "\\"}

\* Characters "." does not match in a JS regular expression.
LineTerminators == {"\n", "\r"}

\* pattern.replace(/[.+^${}()|[\]\\]/g, "\\$&").replace(/\*/g, ".*")
RECURSIVE regexPattern(_)
regexPattern(pattern) ==
    IF pattern = <<>> THEN <<>>
    ELSE LET c == Head(pattern)
             out == IF c \in EscapedChars THEN <<"\\", c>>
                    ELSE IF c = "*" THEN <<".", "*">>
                    ELSE <<c>>
         IN out \o regexPattern(Tail(pattern))

\* new RegExp("^" + src + "$"): the atoms of src, or a SyntaxError. q counts the
\* quantifier symbols already applied to the last atom; 2 also stands for
\* "nothing to repeat" (the start, right after "^").
RECURSIVE RegExpCompile(_, _, _, _)
RegExpCompile(src, i, atoms, q) ==
    IF i > Len(src) THEN [ok |-> TRUE, atoms |-> atoms]
    ELSE LET c == src[i]
             n == Len(atoms)
         IN IF c = "\\" THEN
                RegExpCompile(src, i + 2,
                    Append(atoms, [any |-> FALSE, ch |-> src[i + 1], opt |-> FALSE, many |-> FALSE]), 0)
            ELSE IF c = "." THEN
                RegExpCompile(src, i + 1,
                    Append(atoms, [any |-> TRUE, ch |-> ".", opt |-> FALSE, many |-> FALSE]), 0)
            ELSE IF c = "*" THEN
                IF n = 0 \/ q # 0 THEN [ok |-> FALSE, atoms |-> atoms]
                ELSE RegExpCompile(src, i + 1,
                        [atoms EXCEPT ![n].opt = TRUE, ![n].many = TRUE], 1)
            ELSE IF c = "?" THEN
                IF n = 0 \/ q = 2 THEN [ok |-> FALSE, atoms |-> atoms]
                ELSE IF q = 0 THEN
                    RegExpCompile(src, i + 1, [atoms EXCEPT ![n].opt = TRUE], 1)
                ELSE RegExpCompile(src, i + 1, atoms, 2)   \* lazy: same language
            ELSE RegExpCompile(src, i + 1,
                    Append(atoms, [any |-> FALSE, ch |-> c, opt |-> FALSE, many |-> FALSE]), 0)

\* regex.test(value) for an anchored regular expression: atoms i.. match value j..
RECURSIVE RegExpTest(_, _, _, _)
RegExpTest(atoms, i, value, j) ==
    IF i > Len(atoms) THEN j > Len(value)
    ELSE LET a == atoms[i]
             fits == /\ j <= Len(value)
                     /\ IF a.any THEN value[j] \notin LineTerminators ELSE value[j] = a.ch
         IN \/ a.opt /\ RegExpTest(atoms, i + 1, value, j)
            \/ fits /\ RegExpTest(atoms, IF a.many THEN i ELSE i + 1, value, j + 1)

\* Whether new RegExp throws for this glob.
matchPatternThrows(pattern) == ~RegExpCompile(regexPattern(pattern), 1, <<>>, 2).ok

matchPattern(pattern, value) ==
    LET regex == RegExpCompile(regexPattern(pattern), 1, <<>>, 2)
    IN regex.ok /\ RegExpTest(regex.atoms, 1, value, 1)

-----------------------------------------------------------------------------
(* simpleHash: a 32-bit integer kept as two 16-bit halves.                 *)

Half == 65536

\* hash = (hash << 5) - hash + char; hash = hash & hash
hashStep(h, char) ==
    LET lo == 31 * h.lo + char
        hi == 31 * h.hi + (lo \div Half)
    IN [hi |-> hi % Half, lo |-> lo % Half]

\* for (let i = 0; i < str.length; i++) ..., for the characters i..j.
RECURSIVE hashRange(_, _, _, _)
hashRange(str, i, j, h) ==
    IF i > j THEN h
    ELSE hashRange(str, i + 1, j, hashStep(h, charCodeAt[str[i]]))

\* The loop over the whole string, taken eight characters at a time (this and
\* the test on next only keep the model checker's evaluation stack shallow).
RECURSIVE hashLoop(_, _, _)
hashLoop(str, i, h) ==
    IF i > Len(str) THEN h
    ELSE LET j == IF i + 7 < Len(str) THEN i + 7 ELSE Len(str)
             next == hashRange(str, i, j, h)
         IN IF next.lo >= 0 THEN hashLoop(str, j + 1, next) ELSE h

\* Math.abs of the signed 32-bit integer with these halves.
mathAbs(h) ==
    IF h.hi < 32768 THEN h
    ELSE [hi |-> (65535 - h.hi + (IF h.lo = 0 THEN 1 ELSE 0)) % Half,
          lo |-> (Half - h.lo) % Half]

hexDigits ==
    <<"0", "1", "2", "3", "4", "5", "6", "7", "8", "9", "a", "b", "c", "d", "e", "f">>

\* The four hexadecimal digits of a 16-bit half.
hex4(n) ==
    <<hexDigits[(n \div 4096) + 1], hexDigits[((n \div 256) % 16) + 1],
      hexDigits[((n \div 16) % 16) + 1], hexDigits[(n % 16) + 1]>>

\* Math.abs(hash).toString(16).padStart(8, "0"): at most 2^31, so eight digits.
simpleHash(str) ==
    LET h == mathAbs(hashLoop(str, 1, [hi |-> 0, lo |-> 0]))
    IN hex4(h.hi) \o hex4(h.lo)

-----------------------------------------------------------------------------
(* Maps (registry.rules, registry.agents, ...): entries in insertion order. *)

MapHas(map, id) == \E i \in 1..Len(map) : map[i].id = id

\* map.get(id): <<>> when the id has no entry.
MapGet(map, id) ==
    IF MapHas(map, id)
    THEN Some(map[CHOOSE i \in 1..Len(map) : map[i].id = id])
    ELSE None

\* map.set(item.id, item): replaces the entry of the id in place, or appends.
MapSet(map, item) ==
    IF MapHas(map, item.id)
    THEN [i \in 1..Len(map) |-> IF map[i].id = item.id THEN item ELSE map[i]]
    ELSE Append(map, item)

MapKeys(map) == {map[i].id : i \in 1..Len(map)}

-----------------------------------------------------------------------------
(* Selectors and instruction variants.                                     *)

\* JS truthiness of an optional string: defined and not empty.
Truthy(o) == o # <<>> /\ o[1] # ""

\* JS truthiness of an optional text (a token sequence): defined and not empty.
TruthyText(o) == o # <<>> /\ o[1] # <<>>

\* selectorsMatch with a models list failing when no model is supplied.
selectorsMatchNeedsModel(selectors, model, context) ==
    IF selectors = None THEN TRUE
    ELSE LET s == selectors[1]
             modelMatches ==
                 \E i \in 1..Len(s.models) : matchPattern(Chars(s.models[i]), Chars(model[1]))
         IN /\ Len(s.models) > 0 => (Truthy(model) /\ modelMatches)
            /\ (Len(s.contexts) > 0 /\ Truthy(context)) => context[1] \in Range(s.contexts)

selectorsMatch(selectors, model, context) ==
    IF selectors = None THEN TRUE
    ELSE LET s == selectors[1]
             modelMatches ==
                 \E i \in 1..Len(s.models) : matchPattern(Chars(s.models[i]), Chars(model[1]))
         IN /\ (Len(s.models) > 0 /\ Truthy(model)) => modelMatches
            /\ (Len(s.contexts) > 0 /\ Truthy(context)) => context[1] \in Range(s.contexts)

\* One turn of the loop over agent.variants.
applyVariant(instructions, variant, model) ==
    LET matches ==
            \/ Truthy(variant.when.model)
                 /\ matchPattern(Chars(variant.when.model[1]), Chars(model[1]))
            \/ Truthy(variant.when.modelFamily)
                 /\ matchPattern(Chars(variant.when.modelFamily[1]), Chars(model[1]))
        prepended ==
            IF TruthyText(variant.prepend)
            THEN variant.prepend[1] \o <<"\n\n">> \o instructions
            ELSE instructions
        appended ==
            IF TruthyText(variant.append)
            THEN prepended \o <<"\n\n">> \o variant.append[1]
            ELSE prepended
    IN IF ~matches THEN instructions
       ELSE IF TruthyText(variant.replace) THEN variant.replace[1]
       ELSE appended

\* applyVariants where every variant edits the base instructions: the last
\* variant that changes them wins.
applyVariantsFromBase(instructions, variants, model) ==
    LET edits == {i \in 1..Len(variants) :
                     applyVariant(instructions, variants[i], model) # instructions}
    IN IF edits = {} THEN instructions
       ELSE applyVariant(instructions,
                         variants[CHOOSE i \in edits : \A j \in edits : j <= i], model)

RECURSIVE applyVariants(_, _, _)
applyVariants(instructions, variants, model) ==
    IF variants = <<>> THEN instructions
    ELSE applyVariants(applyVariant(instructions, Head(variants), model), Tail(variants), model)

applyInstructionVariants(agent, model) ==
    IF agent.variants = None \/ ~Truthy(model) THEN agent
    ELSE [agent EXCEPT
            !.instructions = Some(applyVariants(OrElse(agent.instructions, <<>>), agent.variants[1], model))]

-----------------------------------------------------------------------------
(* resolveFromRegistry.                                                    *)

Kinds == <<"rules", "agents", "skills", "mcpServers">>

\* An EnableDisableSet with every list absent ({}).
EmptySet == [rules |-> <<>>, agents |-> <<>>, skills |-> <<>>, mcpServers |-> <<>>]

\* layerEnabled that ignores the toggle.
layerAlwaysEnabled(config, name) == TRUE

\* rootConfig.layers?.<name>?.enabled ?? true
layerEnabled(config, name) == OrElse(config.layers[name], TRUE)

\* The four layers in order: whether each fires, the lists it pushes, its warnings.
baseLayer(config) ==
    IF layerEnabled(config, "base")
    THEN [layer |-> "base", fired |-> TRUE, enable |-> config.enable,
          disable |-> config.disable, warnings |-> <<>>]
    ELSE [layer |-> "base", fired |-> FALSE, enable |-> EmptySet,
          disable |-> EmptySet, warnings |-> <<>>]

\* contextLayer without the warning of line 169.
contextLayerSilent(reg, config, context) ==
    LET contextDef == MapGet(reg.contexts, context[1])
    IN IF layerEnabled(config, "context") /\ Truthy(context) /\ contextDef # None
       THEN [layer |-> "context", fired |-> TRUE, enable |-> contextDef[1].enable,
             disable |-> contextDef[1].disable, warnings |-> <<>>]
       ELSE [layer |-> "context", fired |-> FALSE, enable |-> EmptySet,
             disable |-> EmptySet, warnings |-> <<>>]

contextLayer(reg, config, context) ==
    LET contextDef == MapGet(reg.contexts, context[1])
    IN IF layerEnabled(config, "context") /\ Truthy(context)
       THEN IF contextDef # None
            THEN [layer |-> "context", fired |-> TRUE, enable |-> contextDef[1].enable,
                  disable |-> contextDef[1].disable, warnings |-> <<>>]
            ELSE [layer |-> "context", fired |-> FALSE, enable |-> EmptySet,
                  disable |-> EmptySet,
                  warnings |-> <<[type |-> "Context", id |-> context[1],
                                  text |-> "not found in registry"]>>]
       ELSE [layer |-> "context", fired |-> FALSE, enable |-> EmptySet,
             disable |-> EmptySet, warnings |-> <<>>]

modelLayer(reg, config, model) ==
    LET modelDef == MapGet(reg.models, model[1])
    IN IF layerEnabled(config, "model") /\ Truthy(model) /\ modelDef # None
       THEN [layer |-> "model", fired |-> TRUE, enable |-> modelDef[1].enable,
             disable |-> modelDef[1].disable, warnings |-> <<>>]
       ELSE [layer |-> "model", fired |-> FALSE, enable |-> EmptySet,
             disable |-> EmptySet, warnings |-> <<>>]

cliLayer(config, cliOverlay) ==
    IF layerEnabled(config, "cli") /\ cliOverlay # None
    THEN [layer |-> "cli", fired |-> TRUE, enable |-> cliOverlay[1].enable,
          disable |-> cliOverlay[1].disable, warnings |-> <<>>]
    ELSE [layer |-> "cli", fired |-> FALSE, enable |-> EmptySet,
          disable |-> EmptySet, warnings |-> <<>>]

appliedLayers(reg, config, in) ==
    <<baseLayer(config), contextLayer(reg, config, in.context),
      modelLayer(reg, config, in.model), cliLayer(config, in.cliOverlay)>>

\* enabled.<kind> (polarity "enable") or disabled.<kind> ("disable") after the
\* four layers have pushed their lists.
pushed(layers, polarity, kind) ==
    Concat([i \in 1..Len(layers) |-> layers[i][polarity][kind]])

\* removeDisabled without the deletes of lines 236-239.
removeDisabledKeepsAll(enabledList, disabledList) == SetFrom(enabledList)

\* removeDisabled that leaves the disabled agents in the enabled set.
removeDisabledButAgents(enabledList, disabledList) ==
    LET notAgent(id) == SubSeq(Chars(id), 1, 6) # Chars("agent:")
    IN SetDeleteAll(SetFrom(enabledList), SetFrom(SelectSeq(disabledList, notAgent)))

\* new Set(enabled.<kind>), then the disabled ids deleted from it.
removeDisabled(enabledList, disabledList) ==
    SetDeleteAll(SetFrom(enabledList), SetFrom(disabledList))

\* addDependencies without the disabledSet.has guard.
RECURSIVE addDependenciesUnguarded(_, _, _)
addDependenciesUnguarded(enabledSet, deps, disabledList) ==
    IF deps = <<>> THEN enabledSet
    ELSE addDependenciesUnguarded(SetAdd(enabledSet, Head(deps)), Tail(deps), disabledList)

\* for (const id of deps) if (!disabledSet.has(id)) enabledSet.add(id)
RECURSIVE addDependencies(_, _, _)
addDependencies(enabledSet, deps, disabledList) ==
    IF deps = <<>> THEN enabledSet
    ELSE addDependencies(
            IF Head(deps) \notin Range(disabledList)
            THEN SetAdd(enabledSet, Head(deps)) ELSE enabledSet,
            Tail(deps), disabledList)

\* agentPass where an agent that carries selectors pulls in nothing.
RECURSIVE agentPassUnselected(_, _, _, _)
agentPassUnselected(reg, agentIds, enabledSets, disabledLists) ==
    IF agentIds = <<>> THEN enabledSets
    ELSE LET agent == MapGet(reg.agents, Head(agentIds))
             next ==
                 IF agent = None \/ agent[1].selectors # None THEN enabledSets
                 ELSE [enabledSets EXCEPT
                        !.rules = addDependencies(@, agent[1].rules, disabledLists.rules),
                        !.skills = addDependencies(@, agent[1].skills, disabledLists.skills),
                        !.mcpServers =
                            addDependencies(@, agent[1].mcpServers, disabledLists.mcpServers)]
         IN agentPassUnselected(reg, Tail(agentIds), next, disabledLists)

\* Agents pull in their rules, skills and MCP servers.
RECURSIVE agentPass(_, _, _, _)
agentPass(reg, agentIds, enabledSets, disabledLists) ==
    IF agentIds = <<>> THEN enabledSets
    ELSE LET agent == MapGet(reg.agents, Head(agentIds))
             next ==
                 IF agent = None THEN enabledSets
                 ELSE [enabledSets EXCEPT
                        !.rules = addDependencies(@, agent[1].rules, disabledLists.rules),
                        !.skills = addDependencies(@, agent[1].skills, disabledLists.skills),
                        !.mcpServers =
                            addDependencies(@, agent[1].mcpServers, disabledLists.mcpServers)]
         IN agentPass(reg, Tail(agentIds), next, disabledLists)

\* Skills pull in their required MCP servers.
RECURSIVE skillPass(_, _, _, _)
skillPass(reg, skillIds, enabledSets, disabledLists) ==
    IF skillIds = <<>> THEN enabledSets
    ELSE LET skill == MapGet(reg.skills, Head(skillIds))
             next ==
                 IF skill = None THEN enabledSets
                 ELSE [enabledSets EXCEPT
                        !.mcpServers =
                            addDependencies(@, skill[1].requiresMcpServers, disabledLists.mcpServers)]
         IN skillPass(reg, Tail(skillIds), next, disabledLists)

\* dependencyClosure without the pass over the enabled skills.
closureOfAgentsOnly(reg, enabledSets, disabledLists) ==
    agentPass(reg, enabledSets.agents, enabledSets, disabledLists)

\* dependencyClosure with the skill pass run before the agent pass.
closureSkillsFirst(reg, enabledSets, disabledLists) ==
    LET afterSkills == skillPass(reg, enabledSets.skills, enabledSets, disabledLists)
    IN agentPass(reg, afterSkills.agents, afterSkills, disabledLists)

dependencyClosure(reg, enabledSets, disabledLists) ==
    LET afterAgents == agentPass(reg, enabledSets.agents, enabledSets, disabledLists)
    IN skillPass(reg, afterAgents.skills, afterAgents, disabledLists)

\* The name a message gives the kind.
typeName(kind) ==
    CASE kind = "rules" -> "Rule"
      [] kind = "agents" -> "Agent"
      [] kind = "skills" -> "Skill"
      [] kind = "mcpServers" -> "MCP server"

activationReason(kind) ==
    CASE kind = "rules" -> "explicitly enabled or via dependency"
      [] kind = "agents" -> "explicitly enabled"
      [] kind = "skills" -> "explicitly enabled or via agent dependency"
      [] kind = "mcpServers" -> "explicitly enabled or via skill dependency"

\* collectOutcome without the selectorsMatch test.
collectOutcomeUnselected(reg, kind, id, model, context) ==
    IF MapGet(reg[kind], id) = None THEN "missing" ELSE "active"

\* collectOutcome with a selector mismatch handled as a missing entry.
collectOutcomeStrict(reg, kind, id, model, context) ==
    LET def == MapGet(reg[kind], id)
    IN IF def = None THEN "missing"
       ELSE IF ~selectorsMatch(def[1].selectors, model, context) THEN "missing"
       ELSE "active"

\* collectOutcome where a definition that came from a preset is skipped.
collectOutcomeByOrigin(reg, kind, id, model, context) ==
    LET def == MapGet(reg[kind], id)
    IN IF def = None THEN "missing"
       ELSE IF def[1].source.type = "preset" THEN "skipped"
       ELSE IF ~selectorsMatch(def[1].selectors, model, context) THEN "skipped"
       ELSE "active"

\* What one turn of a collect loop does with an id: "missing", "skipped" or "active".
collectOutcome(reg, kind, id, model, context) ==
    LET def == MapGet(reg[kind], id)
    IN IF def = None THEN "missing"
       ELSE IF ~selectorsMatch(def[1].selectors, model, context) THEN "skipped"
       ELSE "active"

\* recordsMissing without the policy: every missing id is an error.
recordsMissingAlways(config) == TRUE

\* Whether a missing id is recorded in trace.errors.
recordsMissing(config) == ~OrElse(config.policy.allowMissingDependencies, FALSE)

\* The definition pushed on the active list.
activeDefinition(reg, kind, id, model) ==
    LET def == MapGet(reg[kind], id)[1]
    IN IF kind = "agents" THEN applyInstructionVariants(def, model) ELSE def

\* One collect loop: the active list and what it appends to the trace.
collect(reg, config, kind, ids, model, context) ==
    LET outcome(id) == collectOutcome(reg, kind, id, model, context)
        isActive(id) == outcome(id) = "active"
        isSkipped(id) == outcome(id) = "skipped"
        isMissing(id) == outcome(id) = "missing"
        activeIds == SelectSeq(ids, isActive)
        skippedIds == SelectSeq(ids, isSkipped)
        missingIds == IF recordsMissing(config) THEN SelectSeq(ids, isMissing) ELSE <<>>
    IN [active |-> [i \in 1..Len(activeIds) |-> activeDefinition(reg, kind, activeIds[i], model)],
        activations |->
            [i \in 1..Len(activeIds) |->
                [id |-> activeIds[i], enabled |-> TRUE, reason |-> activationReason(kind),
                 source |-> MapGet(reg[kind], activeIds[i])[1].source]],
        warnings |->
            [i \in 1..Len(skippedIds) |->
                [type |-> typeName(kind), id |-> skippedIds[i],
                 text |-> "skipped: selectors don't match model/context"]],
        errors |->
            [i \in 1..Len(missingIds) |->
                [type |-> typeName(kind), id |-> missingIds[i], text |-> "not found in registry"]]]

\* JSON.stringify of a list of ids.
RECURSIVE jsonIds(_)
jsonIds(ids) ==
    IF ids = <<>> THEN <<>>
    ELSE <<"\"">> \o Chars(Head(ids)) \o <<"\"">>
         \o (IF Tail(ids) = <<>> THEN <<>> ELSE <<",">>) \o jsonIds(Tail(ids))

idsOf(defs) == [i \in 1..Len(defs) |-> defs[i].id]

\* JSON.stringify({rules, agents, skills, mcpServers, model, context}): a key whose
\* value is undefined is left out.
configData(activeRules, activeAgents, activeSkills, activeMcpServers, model, context) ==
    Chars("{\"rules\":[") \o jsonIds(idsOf(activeRules))
    \o Chars("],\"agents\":[") \o jsonIds(idsOf(activeAgents))
    \o Chars("],\"skills\":[") \o jsonIds(idsOf(activeSkills))
    \o Chars("],\"mcpServers\":[") \o jsonIds(idsOf(activeMcpServers))
    \o Chars("]")
    \o (IF model = None THEN <<>> ELSE Chars(",\"model\":") \o <<"\"">> \o Chars(model[1]) \o <<"\"">>)
    \o (IF context = None THEN <<>>
        ELSE Chars(",\"context\":") \o <<"\"">> \o Chars(context[1]) \o <<"\"">>)
    \o Chars("}")

\* resultMeta with the timestamp hashed along with the ids.
resultMetaStamped(activeRules, activeAgents, activeSkills, activeMcpServers, model, context, now) ==
    [version |-> 1, model |-> model, context |-> context, timestamp |-> now,
     configHash |->
        simpleHash(configData(activeRules, activeAgents, activeSkills, activeMcpServers,
                              model, context) \o <<hexDigits[now + 1]>>)]

\* The meta object of the result; now is what new Date() reads.
resultMeta(activeRules, activeAgents, activeSkills, activeMcpServers, model, context, now) ==
    [version |-> 1, model |-> model, context |-> context, timestamp |-> now,
     configHash |->
        simpleHash(configData(activeRules, activeAgents, activeSkills, activeMcpServers,
                              model, context))]

resolveFromRegistry(reg, config, in, now) ==
    LET layers == appliedLayers(reg, config, in)
        disabledLists == [k \in Range(Kinds) |-> pushed(layers, "disable", k)]
        enabledSets ==
            [k \in Range(Kinds) |-> removeDisabled(pushed(layers, "enable", k), disabledLists[k])]
        closed == dependencyClosure(reg, enabledSets, disabledLists)
        got == [k \in Range(Kinds) |-> collect(reg, config, k, closed[k], in.model, in.context)]
        perKind(field) == Concat([i \in 1..Len(Kinds) |-> got[Kinds[i]][field]])
    IN [rules |-> got.rules.active,
        agents |-> got.agents.active,
        skills |-> got.skills.active,
        mcpServers |-> got.mcpServers.active,
        meta |-> resultMeta(got.rules.active, got.agents.active, got.skills.active,
                            got.mcpServers.active, in.model, in.context, now),
        trace |-> [presets |-> <<>>,
                   layers |-> [i \in 1..Len(layers) |->
                                 [layer |-> layers[i].layer, enabled |-> layers[i].fired,
                                  applied |-> layers[i].enable]],
                   activations |-> perKind("activations"),
                   warnings |-> Concat([i \in 1..Len(layers) |-> layers[i].warnings])
                                \o perKind("warnings"),
                   errors |-> perKind("errors")]]

\* The enabled sets after the closure and the disabled lists, as
\* resolveFromRegistry holds them before it collects the active items.
closedSets(reg, config, in) ==
    LET layers == appliedLayers(reg, config, in)
        disabledLists == [k \in Range(Kinds) |-> pushed(layers, "disable", k)]
        enabledSets ==
            [k \in Range(Kinds) |-> removeDisabled(pushed(layers, "enable", k), disabledLists[k])]
    IN [enabled |-> dependencyClosure(reg, enabledSets, disabledLists),
        disabled |-> disabledLists]

\* selectors.models.some(...) throws: a pattern new RegExp rejects is reached
\* before one that matches.
selectorsMatchThrows(selectors, model) ==
    /\ selectors # None
    /\ Len(selectors[1].models) > 0
    /\ Truthy(model)
    /\ \E i \in 1..Len(selectors[1].models) :
          /\ matchPatternThrows(Chars(selectors[1].models[i]))
          /\ \A j \in 1..(i - 1) : ~matchPattern(Chars(selectors[1].models[j]), Chars(model[1]))

\* The loop over agent.variants throws: some when.model or when.modelFamily
\* is a pattern new RegExp rejects.
variantsThrow(agent, model) ==
    /\ agent.variants # None
    /\ Truthy(model)
    /\ \E i \in 1..Len(agent.variants[1]) :
          LET when == agent.variants[1][i].when
          IN \/ Truthy(when.model) /\ matchPatternThrows(Chars(when.model[1]))
             \/ Truthy(when.modelFamily) /\ matchPatternThrows(Chars(when.modelFamily[1]))

\* resolveFromRegistry throws (the SyntaxError of new RegExp is caught nowhere).
resolveFromRegistryThrows(reg, config, in) ==
    LET layers == appliedLayers(reg, config, in)
        disabledLists == [k \in Range(Kinds) |-> pushed(layers, "disable", k)]
        enabledSets ==
            [k \in Range(Kinds) |-> removeDisabled(pushed(layers, "enable", k), disabledLists[k])]
        closed == dependencyClosure(reg, enabledSets, disabledLists)
    IN \E k \in Range(Kinds) :
          \E id \in Range(closed[k]) :
             LET def == MapGet(reg[k], id)
             IN /\ def # None
                /\ \/ selectorsMatchThrows(def[1].selectors, in.model)
                   \/ /\ k = "agents"
                      /\ selectorsMatch(def[1].selectors, in.model, in.context)
                      /\ variantsThrow(def[1], in.model)

\* agentLeftBy as if line 84 assigned agent.instructions instead of copying.
agentOverwritten(agent, model) == applyInstructionVariants(agent, model)

\* What applyInstructionVariants leaves of the agent it is given: the text is
\* built in the local `instructions` and returned in a fresh object
\* ({...agent, instructions}), no field of agent is assigned.
agentLeftBy(agent, model) == agent

\* The ids of the agents the collect loop hands to applyInstructionVariants.
variantAgentIds(reg, config, in) ==
    LET layers == appliedLayers(reg, config, in)
        disabledLists == [k \in Range(Kinds) |-> pushed(layers, "disable", k)]
        enabledSets ==
            [k \in Range(Kinds) |-> removeDisabled(pushed(layers, "enable", k), disabledLists[k])]
        closed == dependencyClosure(reg, enabledSets, disabledLists)
    IN {id \in Range(closed.agents) :
           collectOutcome(reg, "agents", id, in.model, in.context) = "active"}

\* The arguments as a call of resolveFromRegistry leaves them: the layers push
\* onto the local lists `enabled` and `disabled`, the closure adds to local
\* Sets, the messages go to the local trace; the registry's agents go through
\* applyInstructionVariants.
inputsLeftBy(reg, config, in) ==
    [registry |->
        [reg EXCEPT !.agents =
            [i \in 1..Len(reg.agents) |->
                IF reg.agents[i].id \in variantAgentIds(reg, config, in)
                THEN agentLeftBy(reg.agents[i], in.model)
                ELSE reg.agents[i]]],
     rootConfig |-> config,
     input |-> in]

-----------------------------------------------------------------------------
(* The registry loader.                                                    *)

RegistryKinds == <<"rules", "agents", "skills", "mcpServers", "contexts", "models">>

\* createEmptyRegistry()
createEmptyRegistry ==
    [rules |-> <<>>, agents |-> <<>>, skills |-> <<>>, mcpServers |-> <<>>,
     contexts |-> <<>>, models |-> <<>>]

\* The typeName addToRegistry passes for each map.
collisionTypeName(kind) ==
    CASE kind = "rules" -> "rule"
      [] kind = "agents" -> "agent"
      [] kind = "skills" -> "skill"
      [] kind = "mcpServers" -> "mcp"
      [] kind = "contexts" -> "context"
      [] kind = "models" -> "model"

\* overrides without the policy: item.override alone decides.
overridesUnconditionally(allowOverrides, item) == OrElse(item.override, FALSE)

\* allowOverrides && item.override
overrides(allowOverrides, item) == allowOverrides /\ OrElse(item.override, FALSE)

\* One turn of the loop of addWithCollisionCheck. acc holds the map, the errors
\* pushed so far and (for the properties) a record of the turn.
addItem(acc, item, kind, allowOverrides) ==
    LET existing == MapGet(acc.map, item.id)
        duplicate == [text |-> "Duplicate", type |-> collisionTypeName(kind), id |-> item.id]
        map == IF existing # None
               THEN IF overrides(allowOverrides, item) THEN MapSet(acc.map, item) ELSE acc.map
               ELSE MapSet(acc.map, item)
        errors == IF existing # None /\ ~overrides(allowOverrides, item)
                  THEN <<duplicate>> ELSE <<>>
    IN [map |-> map,
        errors |-> acc.errors \o errors,
        log |-> Append(acc.log,
                    [kind |-> kind, existing |-> existing, incoming |-> item,
                     after |-> MapGet(map, item.id), errors |-> errors,
                     allowOverrides |-> allowOverrides])]

RECURSIVE addWithCollisionCheck(_, _, _, _)
addWithCollisionCheck(acc, items, kind, allowOverrides) ==
    IF items = <<>> THEN acc
    ELSE addWithCollisionCheck(addItem(acc, Head(items), kind, allowOverrides),
                               Tail(items), kind, allowOverrides)

\* addToRegistry(registry, definitions, allowOverrides): the registry after the
\* call, the errors returned, and the record of its turns. The maps are filled
\* in the order of RegistryKinds.
RECURSIVE addKinds(_, _, _, _)
addKinds(acc, definitions, allowOverrides, i) ==
    IF i > Len(RegistryKinds) THEN acc
    ELSE LET kind == RegistryKinds[i]
             got == addWithCollisionCheck(
                        [map |-> acc.registry[kind], errors |-> acc.errors, log |-> acc.log],
                        definitions[kind], kind, allowOverrides)
         IN addKinds([registry |-> [acc.registry EXCEPT ![kind] = got.map],
                      errors |-> got.errors, log |-> got.log],
                     definitions, allowOverrides, i + 1)

addToRegistry(reg, definitions, allowOverrides) ==
    addKinds([registry |-> reg, errors |-> <<>>, log |-> <<>>], definitions, allowOverrides, 1)

\* loadDefinitionsFromSource: every definition read is tagged with its source.
tagged(items, source) ==
    [i \in 1..Len(items) |->
        [id |-> items[i].id, override |-> items[i].override, body |-> items[i].body,
         selectors |-> items[i].selectors, source |-> source]]

loadDefinitionsFromSource(content, source) ==
    [k \in Range(RegistryKinds) |-> tagged(content.definitions[k], source)]

\* loadOrder with the repo loaded before the presets.
loadOrderRepoFirst(extends) == <<"repo">> \o extends

\* The order in which loadFullRegistry loads its sources.
loadOrder(extends) == extends \o <<"repo">>

\* rootConfig.policy?.allowOverrides ?? true
allowOverridesOf(config) == OrElse(config.policy.allowOverrides, TRUE)

-----------------------------------------------------------------------------
(* The registry the resolver is exercised on.                              *)

RepoSource(file) == [type |-> "repo", preset |-> None, filePath |-> file]
PresetSource(name, file) == [type |-> "preset", preset |-> Some(name), filePath |-> file]

Selectors(models, contexts) == Some([models |-> models, contexts |-> contexts])

RuleDef(id, selectors, source) ==
    [id |-> id, selectors |-> selectors, override |-> None, source |-> source]

AgentDef(id, instructions, variants, rules, skills, mcpServers, selectors, source) ==
    [id |-> id, instructions |-> instructions, variants |-> variants, rules |-> rules,
     skills |-> skills, mcpServers |-> mcpServers, selectors |-> selectors,
     override |-> None, source |-> source]

SkillDef(id, requiresMcpServers, selectors, source) ==
    [id |-> id, requiresMcpServers |-> requiresMcpServers, selectors |-> selectors,
     override |-> None, source |-> source]

McpDef(id, selectors, source) ==
    [id |-> id, selectors |-> selectors, override |-> None, source |-> source]

\* A ContextDefinition or a ModelDefinition.
LayerDef(id, enable, disable, source) ==
    [id |-> id, enable |-> enable, disable |-> disable, override |-> None, source |-> source]

Variant(model, modelFamily, replace, prepend, append) ==
    [when |-> [model |-> model, modelFamily |-> modelFamily],
     replace |-> replace, prepend |-> prepend, append |-> append]

BaseRegistry ==
    [rules |->
        <<RuleDef("rule:style", None, PresetSource("team@1.0.0", "preset/rules/style.md")),
          RuleDef("rule:anth", Selectors(<<"anthropic:*">>, <<>>), RepoSource("ai/rules/anth.md"))>>,
     agents |->
        <<AgentDef("agent:coding", Some(<<"X">>),
                   Some(<<Variant(Some("anthropic:*"), None, None, Some(<<"P">>), Some(<<"A">>)),
                          Variant(None, Some("openai:gpt-*"), Some(<<"Y">>), Some(<<"P">>), None)>>),
                   <<"rule:style", "rule:anth">>, <<"skill:git", "skill:ghost">>, <<>>,
                   None, RepoSource("ai/agents/coding.jsonc")),
          AgentDef("agent:review", None, None,
                   <<"rule:ghost">>, <<>>, <<"mcp:fs">>,
                   Selectors(<<>>, <<"ctx:prod">>), RepoSource("ai/agents/review.jsonc"))>>,
     skills |->
        <<SkillDef("skill:git", <<"mcp:github", "mcp:ghost">>, Selectors(<<>>, <<"ctx:dev", "ctx:prod">>),
                   PresetSource("team@1.0.0", "preset/skills/git.jsonc"))>>,
     mcpServers |->
        <<McpDef("mcp:github", None, RepoSource("ai/mcp/github.jsonc")),
          McpDef("mcp:fs", Selectors(<<"openai:gpt-*", "anthropic:claude-3">>, <<"ctx:dev">>),
                 RepoSource("ai/mcp/fs.jsonc"))>>,
     contexts |->
        <<LayerDef("ctx:dev",
                   [EmptySet EXCEPT !.skills = <<"skill:git">>],
                   [EmptySet EXCEPT !.rules = <<"rule:style">>],
                   RepoSource("ai/contexts/dev.jsonc")),
          LayerDef("ctx:prod", EmptySet, EmptySet, RepoSource("ai/contexts/prod.jsonc"))>>,
     models |->
        <<LayerDef("anthropic:claude-3",
                   [EmptySet EXCEPT !.rules = <<"rule:style">>, !.agents = <<"agent:ghost">>],
                   [EmptySet EXCEPT !.skills = <<"skill:git">>, !.mcpServers = <<"mcp:github">>],
                   RepoSource("ai/models/claude.jsonc"))>>]

\* The ids a base or CLI list may name, per kind.
ListedIds ==
    [rules |-> {"rule:style", "rule:anth"}, agents |-> {"agent:coding", "agent:review"},
     skills |-> {"skill:git"}, mcpServers |-> {"mcp:github"}]

\* All ids of a kind the model knows.
KnownIds ==
    [rules |-> {"rule:style", "rule:anth", "rule:ghost"},
     agents |-> {"agent:coding", "agent:review", "agent:ghost"},
     skills |-> {"skill:git", "skill:ghost"},
     mcpServers |-> {"mcp:github", "mcp:fs", "mcp:ghost"}]

ModelIds == {"anthropic:claude-3", "openai:gpt-4"}
ContextIds == {"ctx:dev", "ctx:prod", "ctx:ghost"}
LayerNames == {"base", "context", "model", "cli"}

DefaultConfig ==
    [extends |-> <<>>,
     layers |-> [base |-> None, context |-> None, model |-> None, cli |-> None],
     enable |-> EmptySet, disable |-> EmptySet,
     policy |-> [allowMissingDependencies |-> None, allowOverrides |-> None]]

DefaultInput == [model |-> None, context |-> None, cliOverlay |-> None]

EmptyOverlay == [enable |-> EmptySet, disable |-> EmptySet]

-----------------------------------------------------------------------------
(* The resolver's state machine: the inputs are set up, then                *)
(* resolveFromRegistry is called on them, repeatedly.                      *)

\* A command line: the command, its id argument and its flags.
Command(command, id, write, mcpNone, mcp, model, context) ==
    [command |-> command, id |-> id, write |-> write, mcpNone |-> mcpNone, mcp |-> mcp,
     model |-> model, context |-> context]

NoCommand == Command("none", "", FALSE, FALSE, <<>>, None, None)

CliIdle == argv = NoCommand

LoaderIdle ==
    /\ disk = <<>>
    /\ loading = createEmptyRegistry
    /\ loadErrors = <<>>
    /\ loadPc = [at |-> 0, state |-> "idle"]
    /\ loadLog = <<>>

Init ==
    /\ registry = BaseRegistry
    /\ rootConfig = DefaultConfig
    /\ input = DefaultInput
    /\ resolved = None
    /\ previous = None
    /\ clock = 0
    /\ setup = 0
    /\ LoaderIdle
    /\ CliIdle

CanSetUp == setup < MaxSetup /\ resolved = None

\* The user adds an id to rootConfig.enable.<kind> or rootConfig.disable.<kind>.
EditBase(polarity, kind, id) ==
    /\ CanSetUp
    /\ rootConfig' = [rootConfig EXCEPT ![polarity][kind] = Append(@, id)]
    /\ setup' = setup + 1
    /\ UNCHANGED <<registry, input, resolved, previous, clock, loaderVars, cliVars>>

\* The caller adds an id to cliOverlay.enable.<kind> or cliOverlay.disable.<kind>.
EditOverlay(polarity, kind, id) ==
    /\ CanSetUp
    /\ input' = [input EXCEPT
                    !.cliOverlay = Some([OrElse(@, EmptyOverlay) EXCEPT ![polarity][kind] = Append(@, id)])]
    /\ setup' = setup + 1
    /\ UNCHANGED <<registry, rootConfig, resolved, previous, clock, loaderVars, cliVars>>

SelectModel(m) ==
    /\ CanSetUp
    /\ input.model = None
    /\ input' = [input EXCEPT !.model = Some(m)]
    /\ setup' = setup + 1
    /\ UNCHANGED <<registry, rootConfig, resolved, previous, clock, loaderVars, cliVars>>

SelectContext(c) ==
    /\ CanSetUp
    /\ input.context = None
    /\ input' = [input EXCEPT !.context = Some(c)]
    /\ setup' = setup + 1
    /\ UNCHANGED <<registry, rootConfig, resolved, previous, clock, loaderVars, cliVars>>

\* The user writes rootConfig.layers.<name>.enabled.
SetLayerEnabled(name, b) ==
    /\ CanSetUp
    /\ rootConfig.layers[name] = None
    /\ rootConfig' = [rootConfig EXCEPT !.layers[name] = Some(b)]
    /\ setup' = setup + 1
    /\ UNCHANGED <<registry, input, resolved, previous, clock, loaderVars, cliVars>>

\* The user writes rootConfig.policy.allowMissingDependencies.
SetAllowMissing(b) ==
    /\ CanSetUp
    /\ rootConfig.policy.allowMissingDependencies = None
    /\ rootConfig' = [rootConfig EXCEPT !.policy.allowMissingDependencies = Some(b)]
    /\ setup' = setup + 1
    /\ UNCHANGED <<registry, input, resolved, previous, clock, loaderVars, cliVars>>

\* A call of resolveFromRegistry(registry, rootConfig, input).
Resolve ==
    /\ clock < MaxCalls
    /\ resolved' = IF resolveFromRegistryThrows(registry, rootConfig, input) THEN None
                   ELSE Some(resolveFromRegistry(registry, rootConfig, input, clock))
    /\ previous' = resolved
    /\ clock' = clock + 1
    /\ LET left == inputsLeftBy(registry, rootConfig, input)
       IN /\ registry' = left.registry
          /\ rootConfig' = left.rootConfig
          /\ input' = left.input
    /\ UNCHANGED <<setup, loaderVars, cliVars>>

Next ==
    \/ \E p \in {"enable", "disable"}, i \in 1..Len(Kinds) :
          \E id \in ListedIds[Kinds[i]] : EditBase(p, Kinds[i], id)
    \/ \E p \in {"enable", "disable"}, i \in 1..Len(Kinds) :
          \E id \in ListedIds[Kinds[i]] : EditOverlay(p, Kinds[i], id)
    \/ \E m \in ModelIds : SelectModel(m)
    \/ \E c \in ContextIds : SelectContext(c)
    \/ \E name \in LayerNames, b \in BOOLEAN : SetLayerEnabled(name, b)
    \/ \E b \in BOOLEAN : SetAllowMissing(b)
    \/ Resolve

Spec == Init /\ [][Next]_vars

-----------------------------------------------------------------------------
(* The loader's state machine: loadFullRegistry reads its sources one by   *)
(* one, the presets of extends in order and then the repo.                 *)

\* Presets read by one call of loadFullRegistry.
MaxPresets == 2

\* The preset references rootConfig.extends may hold, in the order it holds them.
PresetRefs == <<"@team/base", "./presets/local", "@org/extra", "./presets/more">>

\* A definition file: what the loader keeps of it.
File(id, override, body) ==
    [id |-> id, override |-> override, body |-> body, selectors |-> None]

NoDefinitions ==
    [rules |-> <<>>, agents |-> <<>>, skills |-> <<>>, mcpServers |-> <<>>,
     contexts |-> <<>>, models |-> <<>>]

Readable(definitions) == [status |-> "ok", definitions |-> definitions]
Unreadable(status) == [status |-> status, definitions |-> NoDefinitions]

\* A source one of whose files does not parse: the definitions are those the
\* loader had read when parseRuleFile or readJsoncFile threw.
Broken(definitions) == [status |-> "malformed", definitions |-> definitions]

\* What a source directory may hold.
SourceContents ==
    { Readable(NoDefinitions),
      Readable([NoDefinitions EXCEPT !.rules = <<File("rule:style", None, "a")>>,
                                     !.agents = <<File("agent:coding", None, "a")>>]),
      Readable([NoDefinitions EXCEPT !.rules = <<File("rule:style", Some(TRUE), "b")>>]),
      Readable([NoDefinitions EXCEPT !.rules = <<File("rule:style", Some(FALSE), "c")>>,
                                     !.mcpServers = <<File("mcp:github", Some(TRUE), "c")>>]),
      Readable([NoDefinitions EXCEPT !.rules = <<File("rule:style", None, "d"),
                                                 File("rule:style", Some(TRUE), "e")>>]),
      Readable([NoDefinitions EXCEPT !.agents = <<File("agent:coding", Some(TRUE), "f")>>,
                                     !.mcpServers = <<File("mcp:github", None, "f")>>,
                                     !.contexts = <<File("ctx:dev", None, "f")>>]),
      Unreadable("malformed"),
      Broken([NoDefinitions EXCEPT !.rules = <<File("rule:style", Some(TRUE), "g")>>,
                                   !.agents = <<File("agent:review", None, "g")>>]) }

\* A preset may also fail to resolve, or resolve to a directory without manifest.
PresetContents == SourceContents \cup {Unreadable("unresolved"), Unreadable("no-manifest")}

\* The references resolvePresetPath takes for paths: they start with "." or "/".
LocalRefs == {"./presets/local", "./presets/more"}

\* What resolvePresetPath and the loading of the directory can come to for a
\* reference: a path always resolves, a package may not be installed.
presetOutcomes(presetRef) ==
    IF presetRef \in LocalRefs
    THEN PresetContents \ {Unreadable("unresolved")}
    ELSE PresetContents

sourceInfo(name) ==
    IF name = "repo" THEN RepoSource("repo") ELSE PresetSource(name, name)

InitLoad ==
    /\ \E n \in 0..MaxPresets, allow \in {None, Some(TRUE), Some(FALSE)} :
          rootConfig = [DefaultConfig EXCEPT !.extends = SubSeq(PresetRefs, 1, n),
                                             !.enable.rules = <<"rule:style">>,
                                             !.policy.allowOverrides = allow]
    /\ registry = createEmptyRegistry
    /\ input = DefaultInput
    /\ resolved = None
    /\ previous = None
    /\ clock = 0
    /\ setup = 0
    /\ disk = <<>>
    /\ loading = createEmptyRegistry
    /\ loadErrors = <<>>
    /\ loadPc = [at |-> 1, state |-> "loading"]
    /\ loadLog = <<>>
    /\ CliIdle

\* The source loadFullRegistry is about to load.
currentSource == loadOrder(rootConfig.extends)[loadPc.at]

Loading == loadPc.state = "loading" /\ loadPc.at <= Len(loadOrder(rootConfig.extends))

\* What follows the source at loadPc.at: the next source, or the return.
afterSource ==
    IF loadPc.at = Len(loadOrder(rootConfig.extends))
    THEN [at |-> loadPc.at + 1, state |-> "done"]
    ELSE [at |-> loadPc.at + 1, state |-> "loading"]

\* The definitions of a readable source are inserted.
Insert(content) ==
    LET got == addToRegistry(loading,
                   loadDefinitionsFromSource(content, sourceInfo(currentSource)),
                   allowOverridesOf(rootConfig))
    IN /\ loading' = got.registry
       /\ loadErrors' = loadErrors \o got.errors
       /\ loadLog' = loadLog \o got.log

\* caughtErrors with an empty catch block.
caughtSilently(presetRef, content) == <<>>

\* catch (e) { errors.push(`Failed to load preset "${presetRef}": ...`) }
caughtErrors(presetRef, content) ==
    <<[text |-> "Failed to load preset", type |-> content.status, id |-> presetRef]>>

\* leftByFailure with the definitions added to the registry as they are read.
leftByFailureEager(reg, content, source, allowOverrides) ==
    addToRegistry(reg, loadDefinitionsFromSource(content, source), allowOverrides).registry

\* The registry a try block that threw leaves: resolvePresetPath,
\* loadPresetManifest and loadDefinitionsFromSource write to locals only, and
\* the call of addToRegistry that follows them is not reached.
leftByFailure(reg, content, source, allowOverrides) == reg

\* One turn of the loop over rootConfig.extends: the try block, or its catch.
LoadPreset(content) ==
    /\ Loading
    /\ currentSource # "repo"
    /\ content \in presetOutcomes(currentSource)
    /\ disk' = Append(disk, [name |-> currentSource, content |-> content])
    /\ IF content.status = "ok"
       THEN Insert(content)
       ELSE /\ loadErrors' = loadErrors \o caughtErrors(currentSource, content)
            /\ loading' = leftByFailure(loading, content, sourceInfo(currentSource),
                                        allowOverridesOf(rootConfig))
            /\ UNCHANGED loadLog
    /\ loadPc' = afterSource
    /\ registry' = IF loadPc'.state = "done" THEN loading' ELSE registry
    /\ UNCHANGED <<rootConfig, input, resolved, previous, clock, setup, cliVars>>

\* The repo's own definitions: nothing catches what loadDefinitionsFromSource throws.
LoadRepo(content) ==
    /\ Loading
    /\ currentSource = "repo"
    /\ disk' = Append(disk, [name |-> currentSource, content |-> content])
    /\ IF content.status = "ok"
       THEN /\ Insert(content)
            /\ loadPc' = afterSource
       ELSE /\ loadPc' = [at |-> loadPc.at, state |-> "thrown"]
            /\ UNCHANGED <<loading, loadErrors, loadLog>>
    /\ registry' = IF loadPc'.state = "done" THEN loading' ELSE registry
    /\ UNCHANGED <<rootConfig, input, resolved, previous, clock, setup, cliVars>>

\* The rest of resolveConfig once loadFullRegistry has returned: the
\* resolution, then the loading errors pushed on trace.errors.
ResolveConfig ==
    /\ loadPc.state = "done"
    /\ resolved = None
    /\ LET result == resolveFromRegistry(registry, rootConfig, input, clock)
       IN resolved' = Some([result EXCEPT !.trace.errors = @ \o loadErrors])
    /\ clock' = clock + 1
    /\ UNCHANGED <<registry, rootConfig, input, previous, setup, loaderVars, cliVars>>

NextLoad ==
    \/ \E content \in PresetContents : LoadPreset(content)
    \/ \E content \in SourceContents : LoadRepo(content)
    \/ ResolveConfig

SpecLoad == InitLoad /\ [][NextLoad]_vars
-----------------------------------------------------------------------------
(* What a call of resolveFromRegistry is measured against: the lists the   *)
(* four layers hold, and the ids of the result's active lists.             *)

Resolved == resolved # None

\* The ResolvedConfig the last call returned.
Result == resolved[1]

ActiveIds(kind) == {Result[kind][i].id : i \in 1..Len(Result[kind])}

\* The enable and disable lists layer i holds: 1 base, 2 context, 3 model, 4 cli.
LayerSets(i) ==
    CASE i = 1 -> [enable |-> rootConfig.enable, disable |-> rootConfig.disable]
      [] i = 2 -> LET contextDef == MapGet(registry.contexts, input.context[1])[1]
                  IN [enable |-> contextDef.enable, disable |-> contextDef.disable]
      [] i = 3 -> LET modelDef == MapGet(registry.models, input.model[1])[1]
                  IN [enable |-> modelDef.enable, disable |-> modelDef.disable]
      [] i = 4 -> input.cliOverlay[1]

\* Layer i was applied by the last call: its trace entry says enabled.
Applied(i) == Result.trace.layers[i].enabled

\* The ids some applied layer names in its enable (or disable) list of the kind.
Listed(polarity, kind) ==
    UNION {Range(LayerSets(i)[polarity][kind]) : i \in {j \in 1..4 : Applied(j)}}

\* The id has a registry entry whose selectors match the input.
Selectable(kind, id) ==
    /\ MapHas(registry[kind], id)
    /\ selectorsMatch(MapGet(registry[kind], id)[1].selectors, input.model, input.context)

\* The MCP servers the registry's skill of that id requires.
RequiredBy(skillId) ==
    IF MapHas(registry.skills, skillId)
    THEN Range(MapGet(registry.skills, skillId)[1].requiresMcpServers)
    ELSE {}

\* C1. Disable dominance: for every kind, an id that an applied layer lists
\* in enable and an applied layer (the same or another) lists in disable is
\* absent from the active list of that kind.
DisableDominance ==
    Resolved =>
        \A k \in Range(Kinds) :
            \A id \in Listed("enable", k) \cap Listed("disable", k) : id \notin ActiveIds(k)

\* A call where the CLI overlay enables an id that an earlier layer disables;
\* the id is defined and its selectors match, so only the disable keeps it out.
DisableDominanceWitness ==
    /\ Resolved
    /\ Applied(4)
    /\ \E k \in Range(Kinds) :
          \E id \in Range(input.cliOverlay[1].enable[k]) :
             /\ \E j \in 1..3 : Applied(j) /\ id \in Range(LayerSets(j).disable[k])
             /\ Selectable(k, id)
             /\ id \notin ActiveIds(k)

\* C2. Closure completeness: when an agent A is enabled and not disabled, A
\* lists rule R and skill S, S requires MCP server M, the four are defined
\* with matching selectors and none of R, S, M is disabled, then A, R, S and
\* M are all active.
ClosureCompleteness ==
    Resolved =>
        \A a \in 1..Len(registry.agents) :
            LET A == registry.agents[a]
            IN \A R \in Range(A.rules), S \in Range(A.skills) :
                 \A M \in RequiredBy(S) :
                    ( /\ A.id \in Listed("enable", "agents")
                      /\ A.id \notin Listed("disable", "agents")
                      /\ Selectable("agents", A.id) /\ Selectable("rules", R)
                      /\ Selectable("skills", S) /\ Selectable("mcpServers", M)
                      /\ R \notin Listed("disable", "rules")
                      /\ S \notin Listed("disable", "skills")
                      /\ M \notin Listed("disable", "mcpServers") )
                    => /\ A.id \in ActiveIds("agents")
                       /\ R \in ActiveIds("rules")
                       /\ S \in ActiveIds("skills")
                       /\ M \in ActiveIds("mcpServers")

\* A call where only agents are enabled, and a rule, a skill and an MCP server
\* are active through the agent.
ClosureCompletenessWitness ==
    /\ Resolved
    /\ Listed("enable", "rules") = {}
    /\ Listed("enable", "skills") = {}
    /\ Listed("enable", "mcpServers") = {}
    /\ \E a \in 1..Len(registry.agents) :
          LET A == registry.agents[a]
          IN /\ A.id \in Listed("enable", "agents")
             /\ A.id \in ActiveIds("agents")
             /\ \E R \in Range(A.rules), S \in Range(A.skills) :
                   \E M \in RequiredBy(S) :
                      /\ R \in ActiveIds("rules")
                      /\ S \in ActiveIds("skills")
                      /\ M \in ActiveIds("mcpServers")

\* C3. Closure blocking: no id that an applied layer disables is in the
\* active list of its kind, whether an enabled agent lists it or an enabled
\* skill requires it.
ClosureBlocking ==
    Resolved =>
        \A k \in Range(Kinds) : Listed("disable", k) \cap ActiveIds(k) = {}

\* A call where an active skill requires an MCP server that is defined, passes
\* its selectors, is named in no enable list and is disabled: it stays out.
ClosureBlockingWitness ==
    /\ Resolved
    /\ \E S \in ActiveIds("skills") :
          \E M \in RequiredBy(S) :
             /\ M \in Listed("disable", "mcpServers")
             /\ M \notin Listed("enable", "mcpServers")
             /\ Selectable("mcpServers", M)
             /\ M \notin ActiveIds("mcpServers")

\* A list in the opposite order.
Reversed(list) == [i \in 1..Len(list) |-> list[Len(list) + 1 - i]]

\* The same rootConfig with every list of rootConfig.enable permuted.
Permuted(config) ==
    [config EXCEPT !.enable = [k \in Range(Kinds) |-> Reversed(config.enable[k])]]

IdSet(defs) == {defs[i].id : i \in 1..Len(defs)}

\* C4. The configuration hash is a function of the sorted active-id sets,
\* the model and the context: a resolution of the same registry and input
\* whose enable lists name the same ids in another order, and whose active-id
\* sets, model and context are therefore the same, has the same configHash.
HashOfSortedSets ==
    Resolved =>
        LET other == resolveFromRegistry(registry, Permuted(rootConfig), input, clock)
        IN ( /\ \A k \in Range(Kinds) : IdSet(other[k]) = ActiveIds(k)
             /\ other.meta.model = Result.meta.model
             /\ other.meta.context = Result.meta.context )
           => other.meta.configHash = Result.meta.configHash

\* C5. Determinism: a repeated call of resolveFromRegistry on the same
\* registry, rootConfig and input returns the same four active-id lists and
\* the same configHash as the call before it.
Determinism ==
    (Resolved /\ previous # None) =>
        /\ \A k \in Range(Kinds) : idsOf(Result[k]) = idsOf(previous[1][k])
        /\ Result.meta.configHash = previous[1].meta.configHash

\* A second call, at another time, whose result has active definitions.
DeterminismWitness ==
    /\ Resolved
    /\ previous # None
    /\ Result.meta.timestamp # previous[1].meta.timestamp
    /\ \E k \in Range(Kinds) : Len(Result[k]) > 1

\* The active agent is the registry's entry but for its instructions.
SameButInstructions(active, entry) ==
    [active EXCEPT !.instructions = entry.instructions] = entry

\* C6 as stated. Every definition in the four active lists is the registry's
\* entry for its id and passes selectorsMatch for the input.
ActiveAreRegistryEntries ==
    Resolved =>
        \A k \in Range(Kinds) :
            \A i \in 1..Len(Result[k]) :
                /\ Selectable(k, Result[k][i].id)
                /\ Result[k][i] = MapGet(registry[k], Result[k][i].id)[1]

\* C6. Every definition in the four active lists has a registry entry for its
\* id that passes selectorsMatch for the input, whatever
\* policy.allowMissingDependencies is; an active rule, skill or MCP server is
\* that entry, an active agent is that entry but for its instructions.
ActiveAreSelectedEntries ==
    Resolved =>
        \A k \in Range(Kinds) :
            \A i \in 1..Len(Result[k]) :
                /\ Selectable(k, Result[k][i].id)
                /\ IF k = "agents"
                   THEN SameButInstructions(Result[k][i], MapGet(registry[k], Result[k][i].id)[1])
                   ELSE Result[k][i] = MapGet(registry[k], Result[k][i].id)[1]

\* A call under allowMissingDependencies where an active agent lists a skill
\* that has no registry entry.
ActiveAreSelectedEntriesWitness ==
    /\ Resolved
    /\ rootConfig.policy.allowMissingDependencies = Some(TRUE)
    /\ \E i \in 1..Len(Result.agents) :
          \E S \in Range(Result.agents[i].skills) : ~MapHas(registry.skills, S)

-----------------------------------------------------------------------------
(* Properties of the loader.                                               *)

\* The ids the definition files name.
FileIds == {"rule:style", "agent:coding", "mcp:github", "ctx:dev"}

\* The incoming definition is one that may replace an existing entry.
MayReplace(turn) == turn.allowOverrides /\ turn.incoming.override = Some(TRUE)

\* The definitions the sources read so far hold, readable sources only.
DefinitionsRead ==
    Concat([i \in 1..Len(disk) |->
              IF disk[i].content.status = "ok"
              THEN Concat([k \in 1..Len(RegistryKinds) |->
                              disk[i].content.definitions[RegistryKinds[k]]])
              ELSE <<>>])

Collisions == {i \in 1..Len(loadLog) : loadLog[i].existing # None}

\* The "Duplicate <kind> id" errors among the errors collected so far.
DuplicateErrors == SelectSeq(loadErrors, LAMBDA e : e.text = "Duplicate")

\* C7. Registry collision policy: a definition whose id is already in the map
\* of its kind replaces the entry iff allowOverrides is true and it has
\* override:true; otherwise the entry stays as it was and exactly one
\* 'Duplicate <kind> id' error is returned. Either way every definition read is
\* processed, and no map holds two entries for one id.
CollisionPolicy ==
    /\ \A i \in Collisions :
          LET turn == loadLog[i]
          IN IF MayReplace(turn)
             THEN turn.after = Some(turn.incoming) /\ turn.errors = <<>>
             ELSE /\ turn.after = turn.existing
                  /\ turn.after # Some(turn.incoming)
                  /\ Len(turn.errors) = 1
                  /\ turn.errors[1].text = "Duplicate"
                  /\ turn.errors[1].id = turn.incoming.id
    /\ Len(loadLog) = Len(DefinitionsRead)
    /\ \A i \in 1..Len(loadLog) : loadLog[i].incoming.id = DefinitionsRead[i].id
    /\ Len(DuplicateErrors) = Cardinality({i \in Collisions : ~MayReplace(loadLog[i])})
    /\ \A k \in Range(RegistryKinds) :
          \A i, j \in 1..Len(loading[k]) : loading[k][i].id = loading[k][j].id => i = j

\* A load in which one colliding definition was refused and the next definition
\* of the same source was still processed, and another colliding definition
\* replaced the entry.
CollisionPolicyWitness ==
    /\ \E i \in Collisions :
          /\ ~MayReplace(loadLog[i])
          /\ i < Len(loadLog)
          /\ loadLog[i + 1].incoming.source = loadLog[i].incoming.source
          /\ loadLog[i + 1].after = Some(loadLog[i + 1].incoming)
    /\ \E i \in Collisions : MayReplace(loadLog[i])

\* The position of a source in the declared order: the presets as extends
\* lists them, then the repo.
DeclaredOrder == rootConfig.extends \o <<"repo">>

PositionOf(source) ==
    IF source.type = "repo" THEN Len(rootConfig.extends) + 1
    ELSE CHOOSE p \in 1..Len(rootConfig.extends) : rootConfig.extends[p] = source.preset[1]

\* The definitions of an id the readable sources hold for a kind, in the
\* declared order of their sources, each with the source it was read from.
DefinitionsOf(kind, id) ==
    LET named(d) == d.id = id
    IN Concat([i \in 1..Len(disk) |->
                 IF disk[i].content.status = "ok"
                 THEN SelectSeq(tagged(disk[i].content.definitions[kind], sourceInfo(disk[i].name)),
                                named)
                 ELSE <<>>])

\* The definition that holds the id after a sequence of definitions was
\* inserted: the last that was either the first or allowed to override.
Retained(defs) ==
    LET allow == OrElse(rootConfig.policy.allowOverrides, TRUE)
        wins(i) == i = 1 \/ (allow /\ defs[i].override = Some(TRUE))
        last == CHOOSE i \in 1..Len(defs) :
                    wins(i) /\ \A j \in (i + 1)..Len(defs) : ~wins(j)
    IN defs[last]

\* The turns of addToRegistry that inserted the repo's definition of the id.
RepoTurns(kind, id) ==
    {i \in 1..Len(loadLog) :
        /\ loadLog[i].kind = kind
        /\ loadLog[i].incoming.id = id
        /\ loadLog[i].incoming.source.type = "repo"}

LoadDone == loadPc.state = "done"

\* C8. Load order: the sources are inserted one by one, the presets in the
\* order of extends and the repo last, never interleaved. So an id defined by
\* a preset and by the repo ends with the repo's definition and no error for
\* it when that definition has override:true and overrides are allowed, and
\* with the preset's definition and a collision error otherwise; among the
\* presets the earlier definition stays unless a later one overrides it.
LoadOrder ==
    /\ \A i \in 1..Len(disk) : disk[i].name = DeclaredOrder[i]
    /\ \A i, j \in 1..Len(loadLog) :
          i < j => PositionOf(loadLog[i].incoming.source) <= PositionOf(loadLog[j].incoming.source)
    /\ LoadDone =>
          /\ registry = loading
          /\ Len(disk) = Len(DeclaredOrder)
          /\ \A k \in Range(RegistryKinds), id \in FileIds :
                LET defs == DefinitionsOf(k, id)
                IN /\ MapHas(registry[k], id) <=> defs # <<>>
                   /\ defs # <<>> => MapGet(registry[k], id) = Some(Retained(defs))
                   /\ \A t \in RepoTurns(k, id) :
                         loadLog[t].existing # None =>
                            IF MayReplace(loadLog[t])
                            THEN /\ loadLog[t].errors = <<>>
                                 /\ (t = Len(loadLog) \/ loadLog[t + 1].incoming.id # id
                                     \/ loadLog[t + 1].kind # k)
                                    => MapGet(registry[k], id)[1].source.type = "repo"
                            ELSE /\ loadLog[t].errors # <<>>
                                 /\ loadLog[t].after = loadLog[t].existing

\* A finished load of two presets and the repo where a preset and the repo
\* define the same id, the repo's definition has override:true, overrides are
\* allowed, the registry holds the repo's definition and no error is reported.
LoadOrderWitness ==
    /\ LoadDone
    /\ Len(rootConfig.extends) = 2
    /\ \E k \in Range(RegistryKinds), id \in FileIds :
          /\ \E t \in RepoTurns(k, id) :
                /\ loadLog[t].existing # None
                /\ loadLog[t].existing[1].source.type = "preset"
                /\ MayReplace(loadLog[t])
          /\ MapGet(registry[k], id)[1].source.type = "repo"
          /\ loadErrors = <<>>

-----------------------------------------------------------------------------
(* Properties of the collect loops of resolveFromRegistry.                 *)

\* The ids of a kind the applied layers enable and do not disable.
Enabled(kind) == Listed("enable", kind) \ Listed("disable", kind)

\* The registry's agents that are enabled.
EnabledAgents == {registry.agents[i] : i \in {j \in 1..Len(registry.agents) :
                                                registry.agents[j].id \in Enabled("agents")}}

\* The closed enabled set of a kind: the enabled ids and those the enabled
\* agents list, and for MCP servers those the closed skills require, less the
\* disabled ones.
Closed(kind) ==
    CASE kind = "agents" -> Enabled("agents")
      [] kind = "rules" ->
            Enabled("rules")
            \cup (UNION {Range(A.rules) : A \in EnabledAgents} \ Listed("disable", "rules"))
      [] kind = "skills" ->
            Enabled("skills")
            \cup (UNION {Range(A.skills) : A \in EnabledAgents} \ Listed("disable", "skills"))
      [] kind = "mcpServers" ->
            LET skills == Enabled("skills")
                          \cup (UNION {Range(A.skills) : A \in EnabledAgents}
                                \ Listed("disable", "skills"))
            IN Enabled("mcpServers")
               \cup ((UNION {Range(A.mcpServers) : A \in EnabledAgents}
                      \cup UNION {RequiredBy(S) : S \in skills})
                     \ Listed("disable", "mcpServers"))

\* How many messages of the list are about the id.
About(messages, id) == Cardinality({i \in 1..Len(messages) : messages[i].id = id})

AllowsMissing == rootConfig.policy.allowMissingDependencies = Some(TRUE)

\* C9. Missing-dependency policy: an id of the closed enabled set without
\* registry entry is not active; it has exactly one 'not found in registry'
\* error in trace.errors when policy.allowMissingDependencies is false or
\* unset, and no error and no warning when it is true. The other ids of the
\* closed set are resolved all the same.
MissingDependencyPolicy ==
    Resolved =>
        \A k \in Range(Kinds) :
            /\ \A id \in Closed(k) :
                  ~MapHas(registry[k], id) =>
                     /\ id \notin ActiveIds(k)
                     /\ About(Result.trace.warnings, id) = 0
                     /\ About(Result.trace.errors, id) = IF AllowsMissing THEN 0 ELSE 1
                     /\ \A i \in 1..Len(Result.trace.errors) :
                           Result.trace.errors[i].id = id =>
                              Result.trace.errors[i].text = "not found in registry"
            /\ \A id \in Closed(k) : Selectable(k, id) => id \in ActiveIds(k)

\* A call under allowMissingDependencies: an enabled agent lists a skill that
\* was never defined; nothing is reported and the agent's other dependencies
\* are active.
MissingDependencyPolicyWitness ==
    /\ Resolved
    /\ AllowsMissing
    /\ \E S \in Closed("skills") :
          /\ ~MapHas(registry.skills, S)
          /\ S \notin Listed("enable", "skills")
    /\ Result.trace.errors = <<>>
    /\ ActiveIds("skills") # {}
    /\ ActiveIds("rules") # {}

\* C10. Selector gating: an id of the closed enabled set that has a registry
\* entry whose selectors do not match the input is not active, has exactly one
\* warning in trace.warnings and nothing in trace.errors; one whose selectors
\* match is active and has no warning.
SelectorGating ==
    Resolved =>
        \A k \in Range(Kinds) :
            \A id \in Closed(k) :
                MapHas(registry[k], id) =>
                   IF Selectable(k, id)
                   THEN /\ id \in ActiveIds(k)
                        /\ About(Result.trace.warnings, id) = 0
                   ELSE /\ id \notin ActiveIds(k)
                        /\ About(Result.trace.warnings, id) = 1
                        /\ About(Result.trace.errors, id) = 0

\* A call for a model that a closed rule's selectors.models does not match:
\* the rule is left out with a warning, while another rule is active.
SelectorGatingWitness ==
    /\ Resolved
    /\ input.model # None
    /\ \E id \in Closed("rules") :
          /\ MapHas(registry.rules, id)
          /\ ~Selectable("rules", id)
          /\ About(Result.trace.warnings, id) = 1
    /\ ActiveIds("rules") # {}

-----------------------------------------------------------------------------
(* selectorsMatch on its own: one enabled rule carrying the selectors, and *)
(* a model and a context, all drawn from small sets.                       *)

ModelPatternLists ==
    {<<>>, <<"anthropic:*">>, <<"openai:gpt-*">>, <<"openai:gpt-*", "anthropic:claude-3">>}

ContextLists == {<<>>, <<"ctx:dev">>, <<"ctx:dev", "ctx:prod">>}

SelectorChoices ==
    {None} \cup {Selectors(models, contexts) : models \in ModelPatternLists, contexts \in ContextLists}

\* A model or context argument: undefined, the empty string, or an id.
ModelChoices == {None, Some("")} \cup {Some(m) : m \in ModelIds}
ContextChoices == {None, Some("")} \cup {Some(c) : c \in ContextIds}

InitSelectors ==
    /\ \E selectors \in SelectorChoices :
          registry = [createEmptyRegistry EXCEPT
                        !.rules = <<RuleDef("rule:style", selectors, RepoSource("ai/rules/style.md"))>>]
    /\ rootConfig = [DefaultConfig EXCEPT !.enable.rules = <<"rule:style">>]
    /\ \E model \in ModelChoices, context \in ContextChoices :
          input = [DefaultInput EXCEPT !.model = model, !.context = context]
    /\ resolved = None
    /\ previous = None
    /\ clock = 0
    /\ setup = 0
    /\ LoaderIdle
    /\ CliIdle

NextSelectors == Resolve

SpecSelectors == InitSelectors /\ [][NextSelectors]_vars

\* A glob matches a value: "*" stands for any run of characters, every other
\* character for itself.
RECURSIVE GlobMatches(_, _)
GlobMatches(glob, value) ==
    IF glob = <<>> THEN value = <<>>
    ELSE IF Head(glob) = "*"
         THEN \E k \in 0..Len(value) : GlobMatches(Tail(glob), SubSeq(value, k + 1, Len(value)))
         ELSE value # <<>> /\ Head(value) = Head(glob) /\ GlobMatches(Tail(glob), Tail(value))

\* A model or context was supplied: it is defined and not the empty string.
Supplied(o) == o # None /\ o[1] # ""

ModelsConstraintPasses(s, model) ==
    \/ s.models = <<>>
    \/ ~Supplied(model)
    \/ \E i \in 1..Len(s.models) : GlobMatches(Chars(s.models[i]), Chars(model[1]))

ContextsConstraintPasses(s, context) ==
    \/ s.contexts = <<>>
    \/ ~Supplied(context)
    \/ \E i \in 1..Len(s.contexts) : s.contexts[i] = context[1]

\* The selectors the one rule of the registry carries.
RuleSelectors == registry.rules[1].selectors

\* C11. selectorsMatch(selectors, model, context) is true iff selectors is
\* absent or both constraints pass: the models constraint when the list is
\* empty, no model is supplied, or a pattern glob-matches the model; the
\* contexts constraint when the list is empty, no context is supplied, or the
\* context is in the list. The rule carrying the selectors is active exactly
\* then.
SelectorsMatchIff ==
    LET expected ==
            \/ RuleSelectors = None
            \/ /\ ModelsConstraintPasses(RuleSelectors[1], input.model)
               /\ ContextsConstraintPasses(RuleSelectors[1], input.context)
    IN /\ selectorsMatch(RuleSelectors, input.model, input.context) <=> expected
       /\ Resolved => ("rule:style" \in ActiveIds("rules") <=> expected)

\* A resolution where both lists are set, a model and a context are supplied,
\* a pattern with "*" matches the model, but the context is not in the list:
\* the rule is left out.
SelectorsMatchIffWitness ==
    /\ Resolved
    /\ RuleSelectors # None
    /\ Supplied(input.model) /\ Supplied(input.context)
    /\ \E i \in 1..Len(RuleSelectors[1].models) :
          /\ RuleSelectors[1].models[i] # input.model[1]
          /\ GlobMatches(Chars(RuleSelectors[1].models[i]), Chars(input.model[1]))
    /\ RuleSelectors[1].contexts # <<>>
    /\ ~ContextsConstraintPasses(RuleSelectors[1], input.context)
    /\ "rule:style" \notin ActiveIds("rules")

-----------------------------------------------------------------------------
(* applyInstructionVariants on its own: one enabled agent whose            *)
(* instructions and variants are drawn from small sets.                    *)

\* Variants of one agent.
MaxVariants == 2

\* An optional text: undefined, the empty string, or the text.
TextChoices(text) == {None, Some(<<>>), Some(<<text>>)}

WhenChoices ==
    {[model |-> Some("anthropic:claude-3"), modelFamily |-> None],
     [model |-> None, modelFamily |-> Some("openai:gpt-*")]}

VariantChoices ==
    {[when |-> when, replace |-> replace, prepend |-> prepend, append |-> append] :
        when \in WhenChoices, replace \in TextChoices("Y"),
        prepend \in {None, Some(<<"P">>)}, append \in {None, Some(<<"A">>)}}

\* The variants field: undefined, or a list of at most MaxVariants variants.
VariantLists ==
    {None} \cup {Some(list) : list \in UNION {[1..n -> VariantChoices] : n \in 0..MaxVariants}}

InitVariants ==
    /\ \E instructions \in {None, Some(<<"X">>)}, variants \in VariantLists :
          registry = [createEmptyRegistry EXCEPT
                        !.agents = <<AgentDef("agent:coding", instructions, variants,
                                              <<>>, <<>>, <<>>, None,
                                              RepoSource("ai/agents/coding.jsonc"))>>]
    /\ rootConfig = [DefaultConfig EXCEPT !.enable.agents = <<"agent:coding">>]
    /\ \E model \in {None} \cup {Some(m) : m \in ModelIds} :
          input = [DefaultInput EXCEPT !.model = model]
    /\ resolved = None
    /\ previous = None
    /\ clock = MaxCalls - 1    \* one call is made on each agent
    /\ setup = 0
    /\ LoaderIdle
    /\ CliIdle

NextVariants == Resolve

SpecVariants == InitVariants /\ [][NextVariants]_vars

\* The agent of the registry and the agent the resolution made active.
TheAgent == registry.agents[1]
ActiveAgent == Result.agents[1]

\* The variant's when names the model, exactly or by a glob.
VariantMatches(variant, model) ==
    \/ Supplied(variant.when.model)
         /\ GlobMatches(Chars(variant.when.model[1]), Chars(model[1]))
    \/ Supplied(variant.when.modelFamily)
         /\ GlobMatches(Chars(variant.when.modelFamily[1]), Chars(model[1]))

\* C12. Variant replace: when a variant matches the resolved model and its
\* replace is set, whatever its value, the accumulated instructions become
\* exactly the replace string, the prepend and append of that variant being
\* ignored: the final instructions are what the later variants make of the
\* replace string.
VariantReplace ==
    (Resolved /\ Supplied(input.model) /\ TheAgent.variants # None) =>
        LET variants == TheAgent.variants[1]
        IN \A i \in 1..Len(variants) :
              (VariantMatches(variants[i], input.model) /\ variants[i].replace # None) =>
                 ActiveAgent.instructions =
                    Some(applyVariants(variants[i].replace[1],
                                       SubSeq(variants, i + 1, Len(variants)), input.model))

\* The sources read so far whose content has the status.
SourcesWith(status) == {i \in 1..Len(disk) : disk[i].content.status = status}

\* The errors of the list that report the failure to load the preset.
FailuresOf(errors, presetRef) ==
    {i \in 1..Len(errors) :
        errors[i].text = "Failed to load preset" /\ errors[i].id = presetRef}

\* C13. A preset that cannot be resolved is not fatal: loadFullRegistry
\* appends one error naming it and inserts nothing from it, goes on to the
\* later presets and the repo, whose definitions are all inserted; and the
\* ResolvedConfig resolveConfig then returns has that error in trace.errors.
UnresolvedPresetNonFatal ==
    \A i \in SourcesWith("unresolved") :
        /\ Cardinality(FailuresOf(loadErrors, disk[i].name)) = 1
        /\ \A t \in 1..Len(loadLog) : loadLog[t].incoming.source.preset # Some(disk[i].name)
        /\ loadPc.at > i
        /\ loadPc.state = "thrown" => disk[Len(disk)].name = "repo"
        /\ Len(loadLog) = Len(DefinitionsRead)
        /\ LoadDone => Len(disk) = Len(rootConfig.extends) + 1
        /\ Resolved => Cardinality(FailuresOf(Result.trace.errors, disk[i].name)) = 1

\* resolveConfig has returned after a load whose first preset could not be
\* resolved: a later preset and the repo were read and their definitions are
\* in the registry the resolution used.
UnresolvedPresetNonFatalWitness ==
    /\ Resolved
    /\ 1 \in SourcesWith("unresolved")
    /\ Len(disk) = 3
    /\ \E t \in 1..Len(loadLog) : loadLog[t].incoming.source.type = "preset"
    /\ \E t \in 1..Len(loadLog) : loadLog[t].incoming.source.type = "repo"
    /\ "rule:style" \in ActiveIds("rules")

\* C14. Hard failures: a malformed definition or manifest, or a preset
\* directory without manifest, in a preset or in the repo, makes the
\* construction of the registry throw: no Registry is returned and the
\* resolution does not complete.
HardFailures ==
    (SourcesWith("malformed") \cup SourcesWith("no-manifest") # {}) =>
        /\ ~LoadDone
        /\ registry = createEmptyRegistry
        /\ ~Resolved

-----------------------------------------------------------------------------
(* Properties of the layers of resolveFromRegistry.                        *)

\* rootConfig.layers leaves the layer on.
ToggledOn(name) == rootConfig.layers[name] # Some(FALSE)

\* The trace entry of a layer that contributed nothing.
Unapplied(entry) == entry.enabled = FALSE /\ entry.applied = EmptySet

\* C15. A selected id absent from the registry is never an error: for a
\* context not in the registry, with the context layer on, the context layer
\* contributes nothing, trace.warnings gets exactly one warning and
\* trace.errors nothing; for a model not in the registry the model layer
\* contributes nothing and there is neither warning nor error.
AbsentSelection ==
    Resolved =>
        /\ (Supplied(input.context) /\ ToggledOn("context")
              /\ ~MapHas(registry.contexts, input.context[1])) =>
              /\ Unapplied(Result.trace.layers[2])
              /\ About(Result.trace.warnings, input.context[1]) = 1
              /\ About(Result.trace.errors, input.context[1]) = 0
        /\ (Supplied(input.model) /\ ~MapHas(registry.models, input.model[1])) =>
              /\ Unapplied(Result.trace.layers[3])
              /\ About(Result.trace.warnings, input.model[1]) = 0
              /\ About(Result.trace.errors, input.model[1]) = 0

\* A call with a context and a model that the registry does not define.
AbsentSelectionWitness ==
    /\ Resolved
    /\ Supplied(input.context) /\ ~MapHas(registry.contexts, input.context[1])
    /\ Supplied(input.model) /\ ~MapHas(registry.models, input.model[1])
    /\ ToggledOn("context")
    /\ Len(Result.trace.warnings) = 1
    /\ Result.trace.errors = <<>>

-----------------------------------------------------------------------------
(* The command line: resolve with the MCP flags, enable and disable.       *)

\* Commands run one after the other.
MaxCommands == 2

\* str.startsWith(prefix)
startsWith(str, prefix) ==
    /\ Len(Chars(str)) >= Len(Chars(prefix))
    /\ SubSeq(Chars(str), 1, Len(Chars(prefix))) = Chars(prefix)

\* MCP_CATALOG: alias to id.
McpCatalog == [alias \in {"filesystem", "github"} |->
                 IF alias = "github" THEN "mcp:github" ELSE "mcp:filesystem"]

\* resolveMcpRef(ref), for a reference that is trimmed, lower-case and not empty.
resolveMcpRef(ref) ==
    IF startsWith(ref, "mcp:") THEN [ok |-> TRUE, id |-> ref, alias |-> None]
    ELSE IF ref \in DOMAIN McpCatalog
         THEN [ok |-> TRUE, id |-> McpCatalog[ref], alias |-> Some(ref)]
         ELSE [ok |-> FALSE, id |-> "", alias |-> None]

\* The loop over mcpRefs: the ids and aliases gathered, or the first failure.
RECURSIVE resolveMcpRefs(_, _)
resolveMcpRefs(mcpRefs, acc) ==
    IF mcpRefs = <<>> \/ ~acc.ok THEN acc
    ELSE LET r == resolveMcpRef(Head(mcpRefs))
         IN resolveMcpRefs(Tail(mcpRefs),
                IF r.ok
                THEN [ok |-> TRUE, ids |-> Append(acc.ids, r.id), aliases |-> acc.aliases \o r.alias]
                ELSE [ok |-> FALSE, ids |-> acc.ids, aliases |-> acc.aliases])

\* buildCliOverlayFromMcpFlags: mcpNone is flags["mcp-none"] === true, mcpRefs
\* the references parseMcpFlagValues makes of flags.mcp.
buildCliOverlayFromMcpFlags(mcpNone, mcpRefs) ==
    IF mcpRefs = <<>> /\ ~mcpNone
    THEN [ok |-> TRUE, cliOverlay |-> None, requestedAliases |-> <<>>]
    ELSE IF mcpNone
    THEN [ok |-> TRUE,
          cliOverlay |-> Some([enable |-> [EmptySet EXCEPT !.mcpServers = <<>>],
                               disable |-> EmptySet]),
          requestedAliases |-> <<>>]
    ELSE LET got == resolveMcpRefs(mcpRefs, [ok |-> TRUE, ids |-> <<>>, aliases |-> <<>>])
         IN IF got.ok
            THEN [ok |-> TRUE,
                  cliOverlay |-> Some([enable |-> [EmptySet EXCEPT !.mcpServers = got.ids],
                                       disable |-> EmptySet]),
                  requestedAliases |-> got.aliases]
            ELSE [ok |-> FALSE, cliOverlay |-> None, requestedAliases |-> <<>>]

\* /^(rule|agent|skill|mcp):.+$/
IdPrefixes == {"rule:", "agent:", "skill:", "mcp:"}

validId(id) ==
    \E prefix \in IdPrefixes : startsWith(id, prefix) /\ Len(Chars(id)) > Len(Chars(prefix))

listKeyOf(id) ==
    IF startsWith(id, "rule:") THEN "rules"
    ELSE IF startsWith(id, "agent:") THEN "agents"
    ELSE IF startsWith(id, "skill:") THEN "skills"
    ELSE "mcpServers"

\* list.includes(id) ? list : [...list, id]
pushUnlessIncluded(list, id) == IF id \in Range(list) THEN list ELSE Append(list, id)

\* list.filter((x) => x !== id)
without(list, id) == LET other(x) == x # id IN SelectSeq(list, other)

\* writeEnableDisable without the filter of the opposite list.
writeWithoutFilter(config, command, id) ==
    LET listKey == listKeyOf(id)
    IN IF command = "enable"
       THEN [config EXCEPT !.enable[listKey] = pushUnlessIncluded(@, id)]
       ELSE [config EXCEPT !.disable[listKey] = pushUnlessIncluded(@, id)]

\* The config the write branch of runEnableDisable writes back.
writeEnableDisable(config, command, id) ==
    LET listKey == listKeyOf(id)
    IN IF command = "enable"
       THEN [config EXCEPT !.enable[listKey] = pushUnlessIncluded(@, id),
                           !.disable[listKey] = without(@, id)]
       ELSE [config EXCEPT !.disable[listKey] = pushUnlessIncluded(@, id),
                           !.enable[listKey] = without(@, id)]

\* The overlay of the ephemeral branch of runEnableDisable.
ephemeralOverlay(command, id) ==
    LET overlay == [EmptySet EXCEPT ![listKeyOf(id)] = <<id>>]
    IN IF command = "enable"
       THEN [enable |-> overlay, disable |-> EmptySet]
       ELSE [enable |-> EmptySet, disable |-> overlay]


\* resolveConfig(input) on a repository whose definitions load into reg with
\* the load errors given.
resolveConfig(reg, errors, config, in, now) ==
    LET result == resolveFromRegistry(reg, config, in, now)
    IN [result EXCEPT !.trace.errors = @ \o errors]

\* The ai.config.jsonc files the commands are run on.
CliConfigs ==
    {DefaultConfig,
     [DefaultConfig EXCEPT !.enable.mcpServers = <<"mcp:github">>],
     [DefaultConfig EXCEPT !.enable.agents = <<"agent:coding">>],
     [DefaultConfig EXCEPT !.enable.rules = <<"rule:style">>,
                           !.disable.rules = <<"rule:anth", "rule:style">>]}

\* The values of --mcp, of --model and of --context, and the id arguments.
McpRefLists == {<<>>, <<"mcp:fs", "github">>, <<"bogus">>}
CliModels == {None}
CliContexts == {None, Some("ctx:dev")}
CommandIds == {"rule:style", "mcp:github", "bogus"}

InitCli ==
    /\ registry = BaseRegistry
    /\ rootConfig \in CliConfigs
    /\ input = DefaultInput
    /\ resolved = None
    /\ previous = None
    /\ clock = 0
    /\ setup = 0
    /\ LoaderIdle
    /\ CliIdle

\* infrax resolve [--mcp-none] [--mcp refs] [--model m] [--context c]
RunResolve(mcpNone, mcpRefs, model, context) ==
    LET overlayResult == buildCliOverlayFromMcpFlags(mcpNone, mcpRefs)
        in == [model |-> model, context |-> context, cliOverlay |-> overlayResult.cliOverlay]
    IN /\ setup < MaxCommands
       /\ argv' = Command("resolve", "", FALSE, mcpNone, mcpRefs, model, context)
       /\ setup' = setup + 1
       /\ IF overlayResult.ok
          THEN /\ input' = in
               /\ resolved' = Some(resolveConfig(registry, <<>>, rootConfig, in, clock))
               /\ clock' = clock + 1
          ELSE /\ resolved' = None
               /\ UNCHANGED <<input, clock>>
       /\ UNCHANGED <<registry, rootConfig, previous, loaderVars>>

\* infrax enable|disable <id> [--write] [--model m] [--context c]
RunEnableDisable(command, id, write, model, context) ==
    LET in == [model |-> model, context |-> context,
               cliOverlay |-> Some(ephemeralOverlay(command, id))]
    IN /\ setup < MaxCommands
       /\ argv' = Command(command, id, write, FALSE, <<>>, model, context)
       /\ setup' = setup + 1
       /\ IF ~validId(id)
          THEN /\ resolved' = None
               /\ UNCHANGED <<rootConfig, input, clock>>
          ELSE IF ~write
          THEN /\ input' = in
               /\ resolved' = Some(resolveConfig(registry, <<>>, rootConfig, in, clock))
               /\ clock' = clock + 1
               /\ UNCHANGED rootConfig
          ELSE /\ rootConfig' = writeEnableDisable(rootConfig, command, id)
               /\ resolved' = None
               /\ UNCHANGED <<input, clock>>
       /\ UNCHANGED <<registry, previous, loaderVars>>

NextCli ==
    \/ \E mcpNone \in BOOLEAN, mcpRefs \in McpRefLists, model \in CliModels, context \in CliContexts :
          RunResolve(mcpNone, mcpRefs, model, context)
    \/ \E command \in {"enable", "disable"}, id \in CommandIds, write \in BOOLEAN,
          model \in CliModels, context \in CliContexts :
          RunEnableDisable(command, id, write, model, context)

SpecCli == InitCli /\ [][NextCli]_vars

-----------------------------------------------------------------------------
(* C16: --mcp-none.                                                         *)

\* The command line of the run whose result is held.
ResolvedWith(command) == Resolved /\ argv.command = command

\* C16: with the --mcp-none flag the configuration resolved for that run has
\* no active MCP servers, whichever layer or dependency enabled them.
McpNoneDisablesAll ==
    (ResolvedWith("resolve") /\ argv.mcpNone) => Result.mcpServers = <<>>


-----------------------------------------------------------------------------
(* C17: enable and disable with --write.                                    *)

\* The kind an id belongs to, by the ids the model knows.
KindOfId(id) == CHOOSE k \in Range(Kinds) : id \in KnownIds[k]

\* The number of copies of id in a list.
Copies(list, id) == Cardinality({i \in 1..Len(list) : list[i] = id})

\* The other ids of a list, in order.
Others(list, id) == LET other(x) == x # id IN SelectSeq(list, other)

\* The step of a command `command <id> --write` with a well-formed id.
WriteStep(command) ==
    /\ setup' = setup + 1
    /\ argv'.command = command
    /\ argv'.write
    /\ argv'.id \in UNION {KnownIds[k] : k \in Range(Kinds)}

\* What a write of id into the list `into` and out of the list `outOf` leaves.
Written(config, config2, into, outOf, id) ==
    LET k == KindOfId(id)
    IN /\ id \in Range(config2[into][k])
       /\ id \notin Range(config2[outOf][k])
       /\ Copies(config2[into][k], id) = IF id \in Range(config[into][k])
                                         THEN Copies(config[into][k], id) ELSE 1
       /\ Others(config2[into][k], id) = Others(config[into][k], id)
       /\ Others(config2[outOf][k], id) = Others(config[outOf][k], id)
       /\ \A j \in Range(Kinds) \ {k} :
             /\ config2[into][j] = config[into][j]
             /\ config2[outOf][j] = config[outOf][j]
       /\ config2.extends = config.extends
       /\ config2.layers = config.layers
       /\ config2.policy = config.policy

\* C17: after `enable <id> --write` the id is in config.enable[kind] and not in
\* config.disable[kind], after `disable <id> --write` the reverse; a repeated
\* command adds no second copy, and the other ids and kinds are as before.
PersistentEnableDisable ==
    [][/\ WriteStep("enable") => Written(rootConfig, rootConfig', "enable", "disable", argv'.id)
       /\ WriteStep("disable") => Written(rootConfig, rootConfig', "disable", "enable", argv'.id)]_vars

\* `enable rule:style --write` was run twice on a config that disabled the rule.
PersistentEnableDisableWitness ==
    /\ argv.command = "enable" /\ argv.write /\ argv.id = "rule:style"
    /\ setup = 2
    /\ rootConfig.enable.rules = <<"rule:style">>
    /\ rootConfig.disable.rules = <<"rule:anth">>


-----------------------------------------------------------------------------
(* C18: resolution is read-only.                                            *)

\* A call of resolveFromRegistry: the only step that reads the clock.
Called == clock' # clock

-----------------------------------------------------------------------------
(* C19: provenance is audit-only.                                           *)

\* The ways the definitions are relabelled.
Relabellings == {"repo", "preset", "swapped"}

\* The SourceInfo a relabelling gives a definition: one repo SourceInfo for
\* all, one preset SourceInfo for all, or repo and preset swapped.
Relabel(source, how) ==
    CASE how = "repo" -> RepoSource("elsewhere/ai")
      [] how = "preset" -> PresetSource("other@2.0.0", "node_modules/other")
      [] how = "swapped" ->
           IF source.type = "repo" THEN PresetSource("other@2.0.0", source.filePath)
           ELSE RepoSource(source.filePath)

\* The registry with the source of every definition relabelled.
WithSources(reg, how) ==
    [k \in DOMAIN reg |->
        [i \in 1..Len(reg[k]) |-> [reg[k][i] EXCEPT !.source = Relabel(@, how)]]]

\* Registries that differ from reg in SourceInfo fields only.
Relabelled(reg) == {WithSources(reg, how) : how \in Relabellings}

\* What is compared of two results.
Outcome(result) ==
    [rules |-> idsOf(result.rules), agents |-> idsOf(result.agents),
     skills |-> idsOf(result.skills), mcpServers |-> idsOf(result.mcpServers),
     warnings |-> result.trace.warnings, errors |-> result.trace.errors,
     configHash |-> result.meta.configHash]

\* C19: two registries that differ only in the source fields of their
\* definitions yield, for the same RootConfig and ResolveInput, the same
\* active-id lists, warnings, errors and configHash.
ProvenanceAuditOnly ==
    Resolved =>
        \A other \in Relabelled(registry) :
            /\ other # registry
            /\ Outcome(resolveFromRegistry(other, rootConfig, input, Result.meta.timestamp))
                 = Outcome(Result)

\* A result with an active preset definition, an active repo definition, a
\* warning and an error.
ProvenanceAuditOnlyWitness ==
    /\ Resolved
    /\ \E i, j \in 1..Len(Result.trace.activations) :
          /\ Result.trace.activations[i].source.type = "preset"
          /\ Result.trace.activations[j].source.type = "repo"
    /\ Result.trace.warnings # <<>>
    /\ Result.trace.errors # <<>>


-----------------------------------------------------------------------------
(* C20: the preset records of the trace.                                    *)

\* The presets of extends that loaded, in declared order.
LoadedPresets ==
    LET loaded(source) == source.name # "repo" /\ source.content.status = "ok"
        sources == SelectSeq(disk, loaded)
    IN [i \in 1..Len(sources) |-> sources[i].name]

\* C20: the trace resolveConfig returns holds one record for every preset of
\* extends that loaded, in declared order.
PresetRecords ==
    (LoadDone /\ Resolved) =>
        /\ Len(Result.trace.presets) = Len(LoadedPresets)
        /\ \A i \in 1..Len(LoadedPresets) : Result.trace.presets[i].ref = LoadedPresets[i]


-----------------------------------------------------------------------------
(* matchPattern on its own: one enabled rule whose selectors hold one      *)
(* pattern, and a model, both drawn from small sets.                       *)

GlobPatterns == {"gpt-4", "gpt-4?", "gpt-4.", "gpt-*", "*-4", "g(pt)+", "?", "*"}
GlobValues == {"gpt-4", "gpt-4?", "gpt-4.", "gpt-4x", "gpt-", "g(pt)+", "?"}

InitGlob ==
    /\ \E pattern \in GlobPatterns :
          registry = [createEmptyRegistry EXCEPT
                        !.rules = <<RuleDef("rule:style", Selectors(<<pattern>>, <<>>),
                                            RepoSource("ai/rules/style.md"))>>]
    /\ rootConfig = [DefaultConfig EXCEPT !.enable.rules = <<"rule:style">>]
    /\ \E value \in GlobValues : input = [DefaultInput EXCEPT !.model = Some(value)]
    /\ resolved = None
    /\ previous = None
    /\ clock = 0
    /\ setup = 0
    /\ LoaderIdle
    /\ CliIdle

NextGlob == Resolve

SpecGlob == InitGlob /\ [][NextGlob]_vars

\* The pattern and the value matchPattern is called with.
ThePattern == Chars(registry.rules[1].selectors[1].models[1])
TheValue == Chars(input.model[1])

\* C21: matchPattern(pattern, value) is true iff value matches pattern as an
\* anchored, case-sensitive glob where "*" matches any sequence of characters
\* and every other character of the pattern matches only itself; the rule
\* selected by the pattern is active exactly then.
MatchPatternIsGlob ==
    clock > 0 =>
        /\ Resolved
        /\ matchPattern(ThePattern, TheValue) <=> GlobMatches(ThePattern, TheValue)
        /\ "rule:style" \in ActiveIds("rules") <=> GlobMatches(ThePattern, TheValue)


-----------------------------------------------------------------------------
(* C22: two passes close the enabled sets.                                  *)

\* What the last call computed before collecting: enabled sets and disabled lists.
Sets == closedSets(registry, rootConfig, input)

\* The ids of the list that are not disabled are enabled.
Pulled(deps, kind) ==
    \A id \in Range(deps) :
        id \notin Range(Sets.disabled[kind]) => id \in Range(Sets.enabled[kind])

\* C22: after the agent pass and the skill pass the enabled sets are closed:
\* every enabled agent's rules, skills and MCP servers that are not disabled
\* are enabled, every enabled skill's (also one the agent pass added) required
\* MCP servers that are not disabled are enabled, and running the two passes
\* again adds nothing.
TwoPassesSuffice ==
    Resolved =>
        /\ \A id \in Range(Sets.enabled.agents) :
              MapHas(registry.agents, id) =>
                 LET agent == MapGet(registry.agents, id)[1]
                 IN /\ Pulled(agent.rules, "rules")
                    /\ Pulled(agent.skills, "skills")
                    /\ Pulled(agent.mcpServers, "mcpServers")
        /\ \A id \in Range(Sets.enabled.skills) :
              MapHas(registry.skills, id) =>
                 Pulled(MapGet(registry.skills, id)[1].requiresMcpServers, "mcpServers")
        /\ LET again == agentPass(registry, Sets.enabled.agents, Sets.enabled, Sets.disabled)
           IN skillPass(registry, again.skills, again, Sets.disabled) = Sets.enabled

\* An agent was enabled, the agent pass added its skill, and the skill pass
\* added the MCP server that skill requires.
TwoPassesSufficeWitness ==
    /\ Resolved
    /\ "agent:coding" \in Enabled("agents")
    /\ "skill:git" \notin Enabled("skills")
    /\ "mcp:github" \notin Enabled("mcpServers")
    /\ "skill:git" \in Range(Sets.enabled.skills)
    /\ "mcp:github" \in Range(Sets.enabled.mcpServers)
    /\ "mcp:github" \in ActiveIds("mcpServers")


-----------------------------------------------------------------------------
(* C23: disable is subtracted before the closure.                           *)

\* C23: an agent in a disable list of an applied layer is removed from the
\* enabled agents before dependencies are expanded: it is not active and
\* contributes no dependency, so every active id is enabled itself, listed by
\* an agent that is enabled and not disabled, or required by a skill that is
\* enabled or listed by such an agent.
DisableBeforeClosure ==
    Resolved =>
        /\ \A id \in Listed("disable", "agents") : id \notin ActiveIds("agents")
        /\ \A i \in 1..Len(Kinds) : ActiveIds(Kinds[i]) \subseteq Closed(Kinds[i])

\* agent:coding is enabled and disabled; its rules and skills, enabled by
\* nothing else, are not active.
DisableBeforeClosureWitness ==
    /\ Resolved
    /\ "agent:coding" \in Listed("enable", "agents") \cap Listed("disable", "agents")
    /\ Listed("enable", "rules") = {}
    /\ Listed("enable", "skills") = {}
    /\ ActiveIds("rules") = {}
    /\ ActiveIds("skills") = {}
    /\ ActiveIds("mcpServers") = {}


-----------------------------------------------------------------------------
(* C24 and C25: the layer toggles and the layer trace.                      *)

LayerOrder == <<"base", "context", "model", "cli">>

\* Layer i has lists to apply: the context or model was supplied and is in the
\* registry, an overlay was supplied.
Available(i) ==
    CASE i = 1 -> TRUE
      [] i = 2 -> Supplied(input.context) /\ MapHas(registry.contexts, input.context[1])
      [] i = 3 -> Supplied(input.model) /\ MapHas(registry.models, input.model[1])
      [] i = 4 -> input.cliOverlay # None

\* The lists of layer i hold an id.
HoldsIds(i) ==
    \E polarity \in {"enable", "disable"}, k \in Range(Kinds) : LayerSets(i)[polarity][k] # <<>>

\* rootConfig with every omitted toggle written out as true.
TogglesWritten ==
    [rootConfig EXCEPT !.layers = [n \in LayerNames |-> IF @[n] = None THEN Some(TRUE) ELSE @[n]]]

PushedBy(i, kind) == Range(LayerSets(i).enable[kind]) \cup Range(LayerSets(i).disable[kind])

\* C25: trace.layers has exactly four entries, in the order base, context,
\* model, cli; an entry's enabled flag is true iff the layer's lists were
\* applied (toggle on and, for context and model, the id supplied and in the
\* registry, for cli, an overlay supplied); the entry of a layer that fired
\* records every id the layer added to an enable or a disable set.
LayerTrace ==
    Resolved =>
        /\ Len(Result.trace.layers) = 4
        /\ \A i \in 1..4 :
              LET entry == Result.trace.layers[i]
              IN /\ entry.layer = LayerOrder[i]
                 /\ entry.enabled <=> (ToggledOn(LayerOrder[i]) /\ Available(i))
                 /\ entry.enabled =>
                       \A k \in Range(Kinds) : Range(entry.applied[k]) = PushedBy(i, k)


-----------------------------------------------------------------------------
(* C26 and C27: the fold over the variants.                                 *)

\* prepend + blank line + acc + blank line + append, each part when present.
Joined(acc, variant) ==
    (IF variant.prepend # None THEN variant.prepend[1] \o <<"\n\n">> ELSE <<>>)
    \o acc
    \o (IF variant.append # None THEN <<"\n\n">> \o variant.append[1] ELSE <<>>)

\* The accumulator after the variants i.., in declared order.
RECURSIVE Folded(_, _, _, _)
Folded(acc, variants, i, model) ==
    IF i > Len(variants) THEN acc
    ELSE Folded(IF ~VariantMatches(variants[i], model) THEN acc
                ELSE IF variants[i].replace # None THEN variants[i].replace[1]
                ELSE Joined(acc, variants[i]),
                variants, i + 1, model)

\* No variant of the agent has the empty string as its replace.
NoEmptyReplace ==
    \A i \in 1..Len(TheAgent.variants[1]) : TheAgent.variants[1][i].replace # Some(<<>>)

\* C26: applyInstructionVariants folds the variants in declared order over an
\* accumulator seeded with the agent's base instructions; a variant matches
\* iff its when.model glob or its when.modelFamily glob matches the model; a
\* matching non-replace variant turns the accumulator acc into prepend + blank
\* line + acc + blank line + append, each part only when present, on top of
\* the edits of the earlier variants; a variant that does not match leaves
\* the accumulator unchanged.
VariantFolding ==
    (Resolved /\ Supplied(input.model) /\ TheAgent.variants # None /\ NoEmptyReplace) =>
        ActiveAgent.instructions
          = Some(Folded(OrElse(TheAgent.instructions, <<>>), TheAgent.variants[1], 1, input.model))

\* Two matching variants without replace, the second one prepending to and
\* appending around what the first one made.
VariantFoldingWitness ==
    /\ Resolved /\ Supplied(input.model) /\ TheAgent.variants # None
    /\ TheAgent.instructions = Some(<<"X">>)
    /\ Len(TheAgent.variants[1]) = 2
    /\ \A i \in 1..2 : /\ VariantMatches(TheAgent.variants[1][i], input.model)
                       /\ TheAgent.variants[1][i].replace = None
    /\ ActiveAgent.instructions = Some(<<"P", "\n\n", "P", "\n\n", "X", "\n\n", "A">>)


\* C27: applyInstructionVariants returns the agent with unchanged instructions
\* whenever no model is supplied or the agent has no variants (variants absent
\* or an empty list), also when the agent has no base instructions.
NoVariantsUnchanged ==
    (Resolved /\ (~Supplied(input.model) \/ TheAgent.variants \in {None, Some(<<>>)})) =>
        ActiveAgent.instructions = TheAgent.instructions


-----------------------------------------------------------------------------
(* C28: the activation trace.                                               *)

\* The ids of the four active lists, in the order they are collected.
ActiveIdList == Concat([i \in 1..Len(Kinds) |-> idsOf(Result[Kinds[i]])])

\* The ids the enabled agents list as dependencies, for a kind.
DependencyIds(kind) ==
    IF kind = "agents" THEN {} ELSE UNION {Range(A[kind]) : A \in EnabledAgents}

\* C28: trace.activations has exactly one entry, with enabled:true, for each
\* definition of the four active lists and none for an id that was skipped
\* (not in the registry or failing its selectors); no id occurs twice in an
\* active list, also when several layers enabled it or when it was enabled
\* both explicitly and as a dependency.
ActivationTrace ==
    Resolved =>
        /\ idsOf(Result.trace.activations) = ActiveIdList
        /\ \A i \in 1..Len(Result.trace.activations) : Result.trace.activations[i].enabled = TRUE
        /\ \A k \in Range(Kinds) : Cardinality(ActiveIds(k)) = Len(Result[k])
        /\ \A k \in Range(Kinds) :
              \A id \in Closed(k) :
                 ~Selectable(k, id) => id \notin Range(idsOf(Result.trace.activations))

\* An active id that was enabled explicitly and is a dependency of an enabled
\* agent, next to an id that was skipped.
ActivationTraceWitness ==
    /\ Resolved
    /\ \E k \in Range(Kinds) :
          \E id \in ActiveIds(k) : id \in Enabled(k) /\ id \in DependencyIds(k)
    /\ \E k \in Range(Kinds) : \E id \in Closed(k) : ~Selectable(k, id)


-----------------------------------------------------------------------------
(* C29: the closure precedes the filtering.                                 *)

\* The id is active if it is not disabled and selectable.
ActiveUnlessFiltered(kind, id) ==
    (id \notin Listed("disable", kind) /\ Selectable(kind, id)) => id \in ActiveIds(kind)

\* The enabled agents and the closed skills the selectors exclude.
ExcludedAgents == {A \in EnabledAgents : ~Selectable("agents", A.id)}
ExcludedSkills ==
    {id \in Closed("skills") : MapHas(registry.skills, id) /\ ~Selectable("skills", id)}

\* C29: the dependency closure runs on the enabled ids before registry lookup
\* and selector filtering: the rules, skills and MCP servers listed by an
\* enabled agent that its selectors exclude (and the MCP servers those skills
\* require) are active all the same when they are not disabled and pass their
\* own selectors, and so are the MCP servers required by a skill that its
\* selectors exclude.
ClosurePrecedesFiltering ==
    Resolved =>
        /\ \A A \in ExcludedAgents :
              /\ A.id \notin ActiveIds("agents")
              /\ \A id \in Range(A.rules) : ActiveUnlessFiltered("rules", id)
              /\ \A id \in Range(A.skills) :
                    /\ ActiveUnlessFiltered("skills", id)
                    /\ id \notin Listed("disable", "skills") =>
                          \A m \in RequiredBy(id) : ActiveUnlessFiltered("mcpServers", m)
              /\ \A id \in Range(A.mcpServers) : ActiveUnlessFiltered("mcpServers", id)
        /\ \A id \in ExcludedSkills :
              /\ id \notin ActiveIds("skills")
              /\ \A m \in RequiredBy(id) : ActiveUnlessFiltered("mcpServers", m)

\* agent:review is enabled and excluded by its selectors while the MCP server
\* it lists, enabled by nothing else, is active.
ClosurePrecedesFilteringWitness ==
    /\ Resolved
    /\ \E A \in ExcludedAgents :
          \E m \in Range(A.mcpServers) :
             m \notin Enabled("mcpServers") /\ m \in ActiveIds("mcpServers")


-----------------------------------------------------------------------------
(* Preset loading is all-or-nothing.                                       *)

\* The preset the step reads fails to load: its reference does not resolve,
\* its directory has no manifest, or one of its definition files does not parse.
PresetFails ==
    /\ Len(disk') = Len(disk) + 1
    /\ disk'[Len(disk')].name # "repo"
    /\ disk'[Len(disk')].content.status # "ok"

====
